---- MODULE Spec2Model ----
(***************************************************************************)
(* Openbridge MCP gateway: the credential exchange (src/auth/simple.py),   *)
(* the header injector (src/server/tools/base.py) and the request          *)
(* middleware (src/auth/authentication.py).                                *)
(*                                                                         *)
(* Python strings are TLA+ strings; Python's None is the value None below. *)
(* JSON values are tagged records: [t |-> "null"], [t |-> "str", s |-> _], *)
(* [t |-> "num", n |-> _], [t |-> "dict", d |-> function], [t |-> "list"]. *)
(***************************************************************************)
EXTENDS Integers, Sequences, FiniteSets, Bags, TLC

VARIABLES
    refresh_token,  \* OpenbridgeAuth.refresh_token (OPENBRIDGE_REFRESH_TOKEN at construction)
    cache,          \* OpenbridgeAuth._cache
    now,            \* time.time()
    posts,          \* number of exchange requests sent to the auth endpoint so far
    req,            \* the inbound request being served
    ctx,            \* the FastMCP context state of the inbound request
    last,           \* what the latest call did and returned
    tasks,          \* the get_jwt_async coroutines of concurrent callers
    writes,         \* the callers whose exchange wrote the cache, in the order of the writes
    outreq,         \* the httpx.Request handed to AuthenticatedClient.send
    wire,           \* the request as it last left the client
    pg,             \* the pagination loop of the tool being called
    guard,          \* the latest call of safe_pagination_url
    _jwt_token,     \* OpenBridgeProvider._jwt_token
    identities_cache, \* OpenBridgeProvider._identities_cache: its keys in insertion order
    listing,        \* the list_identities coroutines awaiting _fetch_identities: a bag of their keys
    listed,         \* what the latest list_identities call to end did, and the evictions so far
    svc,            \* what the latest call of execute_query did
    hc,             \* the pagination loop of get_healthchecks
    getters         \* the get_token coroutines of concurrent callers of the provider

vars == <<refresh_token, cache, now, posts, req, ctx, last, tasks, writes, outreq, wire,
          pg, guard, _jwt_token, identities_cache, listing, listed, svc, hc,
          getters>>

\* The state of the components an action of another component leaves alone
injectorVars == <<req, ctx, last>>
exchangerVars == <<refresh_token, cache, now, posts>>
concurrentVars == <<tasks, writes>>
clientVars == <<outreq, wire>>
paginationVars == <<pg, guard>>
providerVars == <<_jwt_token, identities_cache, listing, listed, getters>>
serviceVars == <<svc, hc>>
otherVars == <<tasks, writes, outreq, wire, pg, guard, _jwt_token, identities_cache, listing, listed,
               svc, hc, getters>>

---------------------------------------------------------------------------
(* Bounds of the model *)

MaxNow == 700
MaxPosts == 3
MaxCallers == 3
MaxFetches == 101
MaxListers == 2
MaxStale == 2
MaxEvictions == 3
MaxKeys == 33
MaxGetters == 3

(* Program constants *)

SAFETY_BUFFER == 300
DEFAULT_LIFETIME == 3600
BEARER_PREFIX_LEN == 7
VALIDATE_BUFFER == 300

None == "<None>"
auth_base_url == "https://authentication.api.openbridge.io"
auth_path == auth_base_url \o "/auth/api/ref"

---------------------------------------------------------------------------
(* Python string and truthiness helpers *)

Truthy(s) == s # None /\ s # ""

StartsWith(s, p) == Len(s) >= Len(p) /\ SubSeq(s, 1, Len(p)) = p

Contains(s, p) ==
    \E i \in 1..(Len(s) - Len(p) + 1) : SubSeq(s, i, i + Len(p) - 1) = p

RECURSIVE LStrip(_)
LStrip(s) ==
    IF Len(s) > 0 /\ SubSeq(s, 1, 1) = " " THEN LStrip(SubSeq(s, 2, Len(s))) ELSE s

RECURSIVE RStrip(_)
RStrip(s) ==
    IF Len(s) > 0 /\ SubSeq(s, Len(s), Len(s)) = " "
    THEN RStrip(SubSeq(s, 1, Len(s) - 1)) ELSE s

Strip(s) == RStrip(LStrip(s))

RECURSIVE Lower(_)
\* str.lower() for ASCII letters
Lower(s) ==
    IF s = "" THEN ""
    ELSE (LET c == SubSeq(s, 1, 1)
          IN  CASE c = "A" -> "a" [] c = "B" -> "b" [] c = "C" -> "c" [] c = "D" -> "d"
                [] c = "E" -> "e" [] c = "F" -> "f" [] c = "G" -> "g" [] c = "H" -> "h"
                [] c = "I" -> "i" [] c = "J" -> "j" [] c = "K" -> "k" [] c = "L" -> "l"
                [] c = "M" -> "m" [] c = "N" -> "n" [] c = "O" -> "o" [] c = "P" -> "p"
                [] c = "Q" -> "q" [] c = "R" -> "r" [] c = "S" -> "s" [] c = "T" -> "t"
                [] c = "U" -> "u" [] c = "V" -> "v" [] c = "W" -> "w" [] c = "X" -> "x"
                [] c = "Y" -> "y" [] c = "Z" -> "z" [] OTHER -> c)
         \o Lower(SubSeq(s, 2, Len(s)))

\* s up to, not including, its first character among stops
Before(s, stops) ==
    LET hits == {i \in 1..Len(s) : SubSeq(s, i, i) \in stops}
    IN  IF hits = {} THEN s
        ELSE SubSeq(s, 1, (CHOOSE i \in hits : \A j \in hits : i <= j) - 1)

\* s after its last character among stops, s itself when it has none
AfterLast(s, stops) ==
    LET hits == {i \in 1..Len(s) : SubSeq(s, i, i) \in stops}
    IN  IF hits = {} THEN s
        ELSE SubSeq(s, (CHOOSE i \in hits : \A j \in hits : j <= i) + 1, Len(s))

---------------------------------------------------------------------------
(* JSON values and Python subscripting *)

JNull == [t |-> "null"]
JStr(s) == [t |-> "str", s |-> s]
JNum(n) == [t |-> "num", n |-> n]
JDict(f) == [t |-> "dict", d |-> f]
JList == [t |-> "list"]
\* A number too large for a float, which json.loads reads as float("inf")
JInf == [t |-> "inf"]
EmptyDict == JDict([k \in {} |-> JNull])

Ok(v) == [ok |-> TRUE, v |-> v]
Err(e) == [ok |-> FALSE, exc |-> e]

\* v[key]: KeyError on a dict without the key, TypeError on anything that is no dict
Subscript(v, key) ==
    IF v.t = "dict"
    THEN IF key \in DOMAIN v.d THEN Ok(v.d[key]) ELSE Err("KeyError")
    ELSE Err("TypeError")

\* d.get(key) on a dict
DictGet(f, key) == IF key \in DOMAIN f THEN f[key] ELSE JNull

TruthyJ(v) ==
    CASE v.t = "null" -> FALSE
      [] v.t = "num" -> v.n # 0
      [] v.t = "inf" -> TRUE
      [] v.t = "str" -> v.s # ""
      [] v.t = "dict" -> DOMAIN v.d # {}
      [] OTHER -> FALSE

\* a or b
PyOr(a, b) == IF TruthyJ(a) THEN a ELSE b

\* float(v): the model's only strings are non-numeric
PyFloat(v) ==
    CASE v.t = "num" -> Ok(v.n)
      [] v.t = "str" -> Err("ValueError")
      [] OTHER -> Err("TypeError")

---------------------------------------------------------------------------
(* Results of calls *)

NoHeaders == {}
BearerHeaders(tok) == {<<"Authorization", "Bearer " \o tok>>}

Return(tok) == [kind |-> "return", token |-> tok, headers |-> NoHeaders, exc |-> "", msg |-> ""]
ReturnHeaders(h) == [kind |-> "return", token |-> None, headers |-> h, exc |-> "", msg |-> ""]
Raise(e, m) == [kind |-> "raise", token |-> None, headers |-> NoHeaders, exc |-> e, msg |-> m]

NoCache == [present |-> FALSE, token |-> "", expires |-> 0]
CachedToken(tok, e) == [present |-> TRUE, token |-> tok, expires |-> e]

---------------------------------------------------------------------------
(* The auth service as seen by the exchanger: tokens and responses *)

\* Payload segments the issuer may sign (the claims a token carries); a token
\* a caller made up may carry the payload "g" as well, with "exp": 1e999
PayloadKeys == {"a", "b", "c", "d", "e", "f"}

ClaimsOf(k, sub) ==
    CASE k = "a" -> [expires_at |-> JNum(600), sub |-> JStr(sub)]
      [] k = "b" -> [expires_at |-> JNum(600), exp |-> JNum(900), sub |-> JStr(sub)]
      [] k = "c" -> [exp |-> JNum(900), sub |-> JStr(sub)]
      [] k = "d" -> [sub |-> JStr(sub)]
      [] k = "e" -> [expires_at |-> JNum(0), exp |-> JNum(400), sub |-> JStr(sub)]
      [] k = "g" -> [exp |-> JInf, sub |-> JStr(sub)]
      [] OTHER -> [expires_at |-> JStr("soon"), sub |-> JStr(sub)]

\* The n-th token issued, carrying payload k for the account of credential cred
Jwt(n, k, cred) == "jwt" \o ToString(n) \o "." \o k \o "." \o cred

IsJwt(s) ==
    /\ Len(s) >= 7
    /\ SubSeq(s, 1, 3) = "jwt"
    /\ SubSeq(s, 5, 5) = "."
    /\ SubSeq(s, 7, 7) = "."
    /\ SubSeq(s, 6, 6) \in PayloadKeys \cup {"g"}

\* jwt.decode(token, options={"verify_signature": False})
JwtDecode(tokJ) ==
    IF tokJ.t = "str" /\ IsJwt(tokJ.s)
    THEN Ok(ClaimsOf(SubSeq(tokJ.s, 6, 6), SubSeq(tokJ.s, 8, Len(tokJ.s))))
    ELSE Err("DecodeError")

\* The account a token was issued for
SubjectOf(tok) == SubSeq(tok, 8, Len(tok))

Envelope(tokJ) == JDict([data |-> JDict([attributes |-> JDict([token |-> tokJ])])])

PartialPayloads ==
    { EmptyDict,
      JDict([data |-> JNull]),
      JDict([data |-> JDict([attributes |-> EmptyDict])]),
      JList,
      Envelope(JNull) }

TokensJ(n, cred) == {JStr(Jwt(n, k, cred)) : k \in PayloadKeys} \cup {JStr("not-a-jwt")}

Resp(status, reason, json, payload) ==
    [net |-> "ok", status |-> status, reason |-> reason, json |-> json, payload |-> payload]

TransportFailure ==
    [net |-> "raise", status |-> 0, reason |-> "", json |-> FALSE, payload |-> JNull]

FailingStatuses ==
    { <<503, "Service Unavailable">>, <<503, "Service not available">>, <<404, "Not Found">> }

TokenStatuses == { <<200, "OK">>, <<304, "Not Modified">> }

\* Every way the n-th exchange, made with credential cred, can end
Outcomes(n, cred) ==
    {TransportFailure}
    \cup {Resp(sr[1], sr[2], FALSE, JNull) : sr \in FailingStatuses}
    \cup {Resp(200, "OK", FALSE, JNull)}
    \cup {Resp(200, "OK", TRUE, p) : p \in PartialPayloads}
    \cup {Resp(sr[1], sr[2], TRUE, Envelope(t)) : sr \in TokenStatuses, t \in TokensJ(n, cred)}

---------------------------------------------------------------------------
(* src/auth/simple.py *)

\* Mutant: the boundary instant counts as valid
IsValid_InclusiveBoundary(c) == now <= c.expires - SAFETY_BUFFER

IsValid(c) == now < c.expires - SAFETY_BUFFER

BuildPayload(rt) == [data |-> [type |-> "APIAuth", attributes |-> [refresh_token |-> rt]]]

PostRequest(rt) ==
    [method |-> "POST", url |-> auth_path, json |-> BuildPayload(rt),
     headers |-> {<<"Content-Type", "application/json">>}]

\* float(decoded.get("expires_at") or decoded.get("exp") or (time.time() + 3600))
TokenExpiry(claims) ==
    PyFloat(PyOr(PyOr(DictGet(claims, "expires_at"), DictGet(claims, "exp")),
                 JNum(now + DEFAULT_LIFETIME)))

\* r[key] when r is a value, the exception itself when r already raised
SubscriptIn(r, key) == IF r.ok THEN Subscript(r.v, key) ELSE r

\* payload["data"]["attributes"]["token"]
TokenField(payload) ==
    SubscriptIn(SubscriptIn(Subscript(payload, "data"), "attributes"), "token")

\* Mutant: the token of the entry is replaced and the expiry of an entry
\* already held is kept
StoreToken_KeepExpiry(jwt_token, decoded, doCache) ==
    IF ~decoded.ok
    THEN [res |-> Raise(decoded.exc, "Invalid token"), cache |-> cache]
    ELSE IF ~TokenExpiry(decoded.v).ok
    THEN [res |-> Raise(TokenExpiry(decoded.v).exc, "could not convert to float"),
          cache |-> cache]
    ELSE [res |-> Return(jwt_token.s),
          cache |-> IF doCache
                    THEN CachedToken(jwt_token.s,
                                     IF cache.present THEN cache.expires
                                     ELSE TokenExpiry(decoded.v).v)
                    ELSE cache]

\* The rest of _extract_token once the token field was read: decode, cache, return
StoreToken(jwt_token, decoded, doCache) ==
    IF ~decoded.ok
    THEN [res |-> Raise(decoded.exc, "Invalid token"), cache |-> cache]
    ELSE IF ~TokenExpiry(decoded.v).ok
    THEN [res |-> Raise(TokenExpiry(decoded.v).exc, "could not convert to float"),
          cache |-> cache]
    ELSE [res |-> Return(jwt_token.s),
          cache |-> IF doCache
                    THEN CachedToken(jwt_token.s, TokenExpiry(decoded.v).v)
                    ELSE cache]

\* The except KeyError clause, then the rest
ExtractFrom(field, doCache) ==
    IF ~field.ok
    THEN IF field.exc = "KeyError"
         THEN [res |-> Raise("AuthenticationError",
                             "Openbridge auth response did not include a token"),
               cache |-> cache]
         ELSE [res |-> Raise(field.exc, "object is not subscriptable"), cache |-> cache]
    ELSE StoreToken(field.v, JwtDecode(field.v), doCache)

ExtractToken(payload, doCache) == ExtractFrom(TokenField(payload), doCache)

\* Mutant: only None counts as a missing credential, the empty string passes
ActiveRefreshToken_NoneOnly(override) ==
    LET token == IF Truthy(override) THEN override ELSE refresh_token
    IN  IF token = None
        THEN Raise("AuthenticationError",
                   "OPENBRIDGE_REFRESH_TOKEN not available for JWT generation")
        ELSE Return(token)

ActiveRefreshToken(override) ==
    LET token == IF Truthy(override) THEN override ELSE refresh_token
    IN  IF ~Truthy(token)
        THEN Raise("AuthenticationError",
                   "OPENBRIDGE_REFRESH_TOKEN not available for JWT generation")
        ELSE Return(token)

\* requests.Response.raise_for_status: HTTPError for 4xx and 5xx
RequestsRaisesForStatus(status) == status >= 400 /\ status < 600

RequestsErrorText(o) ==
    ToString(o.status)
    \o (IF o.status < 500 THEN " Client Error: " ELSE " Server Error: ")
    \o o.reason \o " for url: " \o auth_path

\* httpx.Response.raise_for_status: HTTPStatusError for everything but 2xx
HttpxRaisesForStatus(status) == ~(status >= 200 /\ status < 300)

HttpxErrorText(o) ==
    (IF o.status < 400 THEN "Redirect response '"
     ELSE IF o.status < 500 THEN "Client error '" ELSE "Server error '")
    \o ToString(o.status) \o " " \o o.reason \o "' for url '" \o auth_path \o "'"

JSONDecodeText == "Expecting value: line 1 column 1 (char 0)"

\* The outcome x of _extract_token, with the request that was posted
Sent(x, rt) == [res |-> x.res, cache |-> x.cache, reqs |-> <<PostRequest(rt)>>]

\* Mutant: an exchange that fails before _extract_token drops the entry
Refresh_ClearOnFailure(rt, doCache, o) ==
    IF o.net = "raise"
    THEN [res |-> Raise("AuthenticationError", "Openbridge auth request failed"),
          cache |-> NoCache, reqs |-> <<PostRequest(rt)>>]
    ELSE IF RequestsRaisesForStatus(o.status)
    THEN [res |-> Raise("AuthenticationError",
                        "Failed to convert refresh token to JWT: " \o RequestsErrorText(o)),
          cache |-> NoCache, reqs |-> <<PostRequest(rt)>>]
    ELSE IF ~o.json
    THEN [res |-> Raise("AuthenticationError",
                        "Failed to convert refresh token to JWT: " \o JSONDecodeText),
          cache |-> NoCache, reqs |-> <<PostRequest(rt)>>]
    ELSE Sent(ExtractToken(o.payload, doCache), rt)

\* _refresh: post, raise_for_status, json, _extract_token
Refresh(rt, doCache, o) ==
    IF o.net = "raise"
    THEN [res |-> Raise("AuthenticationError", "Openbridge auth request failed"),
          cache |-> cache, reqs |-> <<PostRequest(rt)>>]
    ELSE IF RequestsRaisesForStatus(o.status)
    THEN [res |-> Raise("AuthenticationError",
                        "Failed to convert refresh token to JWT: " \o RequestsErrorText(o)),
          cache |-> cache, reqs |-> <<PostRequest(rt)>>]
    ELSE IF ~o.json
    THEN [res |-> Raise("AuthenticationError",
                        "Failed to convert refresh token to JWT: " \o JSONDecodeText),
          cache |-> cache, reqs |-> <<PostRequest(rt)>>]
    ELSE Sent(ExtractToken(o.payload, doCache), rt)

\* Mutant: an exchange that finds a valid entry written meanwhile keeps that
\* entry instead of replacing it
RefreshAsync_KeepValid(rt, doCache, o) ==
    IF o.net = "raise"
    THEN [res |-> Raise("AuthenticationError", "Openbridge auth request failed"),
          cache |-> cache, reqs |-> <<PostRequest(rt)>>]
    ELSE Sent(ExtractToken(o.payload, doCache /\ ~(cache.present /\ IsValid(cache))), rt)

RefreshAsync(rt, doCache, o) ==
    IF o.net = "raise"
    THEN [res |-> Raise("AuthenticationError", "Openbridge auth request failed"),
          cache |-> cache, reqs |-> <<PostRequest(rt)>>]
    ELSE IF HttpxRaisesForStatus(o.status)
    THEN [res |-> Raise("AuthenticationError",
                        "Failed to convert refresh token to JWT: " \o HttpxErrorText(o)),
          cache |-> cache, reqs |-> <<PostRequest(rt)>>]
    ELSE IF ~o.json
    THEN [res |-> Raise("AuthenticationError",
                        "Failed to convert refresh token to JWT: " \o JSONDecodeText),
          cache |-> cache, reqs |-> <<PostRequest(rt)>>]
    ELSE Sent(ExtractToken(o.payload, doCache), rt)

\* Mutant: the cache is never consulted
GetJwt_AlwaysRefresh(o) ==
    LET token == ActiveRefreshToken(None) IN
    IF token.kind = "raise"
    THEN [res |-> token, cache |-> cache, reqs |-> <<>>]
    ELSE Refresh(token.token, TRUE, o)

GetJwt(o) ==
    LET token == ActiveRefreshToken(None) IN
    IF token.kind = "raise"
    THEN [res |-> token, cache |-> cache, reqs |-> <<>>]
    ELSE IF cache.present /\ IsValid(cache)
    THEN [res |-> Return(cache.token), cache |-> cache, reqs |-> <<>>]
    ELSE Refresh(token.token, TRUE, o)

\* Mutant: an override exchange uses the shared cache like any other
GetJwtAsync_AlwaysCache(override, o) ==
    LET token == ActiveRefreshToken(override)
    IN  IF token.kind = "raise"
        THEN [res |-> token, cache |-> cache, reqs |-> <<>>]
        ELSE IF cache.present /\ IsValid(cache)
        THEN [res |-> Return(cache.token), cache |-> cache, reqs |-> <<>>]
        ELSE RefreshAsync(token.token, TRUE, o)

GetJwtAsync(override, o) ==
    LET token == ActiveRefreshToken(override)
        use_cache == override = None
    IN  IF token.kind = "raise"
        THEN [res |-> token, cache |-> cache, reqs |-> <<>>]
        ELSE IF use_cache /\ cache.present /\ IsValid(cache)
        THEN [res |-> Return(cache.token), cache |-> cache, reqs |-> <<>>]
        ELSE RefreshAsync(token.token, use_cache, o)

\* The credential an exchange would be made with
ActiveCredential(override) == IF Truthy(override) THEN override ELSE refresh_token

---------------------------------------------------------------------------
(* src/auth/simple.py: get_headers *)

\* Mutant: the token is sent without the Bearer scheme
GetHeaders_NoScheme(o) ==
    LET r == GetJwt(o) IN
    IF r.res.kind = "return"
    THEN [res |-> ReturnHeaders({<<"Authorization", r.res.token>>}),
          cache |-> r.cache, reqs |-> r.reqs]
    ELSE r

\* {"Authorization": f"Bearer {...}"} around what get_jwt returned, or what it raised
AsHeaders(r) ==
    IF r.res.kind = "return"
    THEN [res |-> ReturnHeaders(BearerHeaders(r.res.token)), cache |-> r.cache, reqs |-> r.reqs]
    ELSE r

GetHeaders(o) == AsHeaders(GetJwt(o))

---------------------------------------------------------------------------
(* src/server/tools/base.py *)

\* get_access_token() of the MCP auth context, then token.token
GetContextJwt == req.access

ConversionFailureText ==
    "Failed to convert OPENBRIDGE_REFRESH_TOKEN to JWT.\n\n"
    \o "Possible causes:\n"
    \o "1. Token format incorrect (expected: xxx:yyy)\n"
    \o "2. OpenBridge API unreachable\n"
    \o "3. Token expired or revoked\n\n"
    \o "Action: Verify OPENBRIDGE_REFRESH_TOKEN and check connectivity to "
    \o auth_base_url \o "/auth/api/ref"

\* Mutant: every AuthenticationError is re-raised, the missing credential too
GetAuthHeaders_NoFallback(o) ==
    LET r == GetHeaders(o) IN
    IF Truthy(GetContextJwt)
    THEN [res |-> ReturnHeaders(BearerHeaders(GetContextJwt)), cache |-> cache, reqs |-> <<>>]
    ELSE IF r.res.kind = "raise" /\ r.res.exc = "AuthenticationError"
    THEN [res |-> Raise("AuthenticationError", ConversionFailureText),
          cache |-> r.cache, reqs |-> r.reqs]
    ELSE r

\* The except AuthenticationError clause around auth.get_headers()
HandleFailure(r) ==
    IF r.res.kind = "raise" /\ r.res.exc = "AuthenticationError"
    THEN IF Contains(r.res.msg, "not available")
         THEN [res |-> ReturnHeaders(NoHeaders), cache |-> r.cache, reqs |-> r.reqs]
         ELSE [res |-> Raise("AuthenticationError", ConversionFailureText),
               cache |-> r.cache, reqs |-> r.reqs]
    ELSE r

GetAuthHeaders(o) ==
    IF Truthy(GetContextJwt)
    THEN [res |-> ReturnHeaders(BearerHeaders(GetContextJwt)), cache |-> cache, reqs |-> <<>>]
    ELSE HandleFailure(GetHeaders(o))

---------------------------------------------------------------------------
(* src/auth/authentication.py *)

NoContextState == [_openbridge_jwt |-> None, jwt_token |-> None]

\* Mutant: the scheme of the header is matched without regard to case
HeaderBearer_AnyCase(auth_header) ==
    IF auth_header # None /\ StartsWith(Lower(auth_header), "bearer ")
    THEN Strip(SubSeq(auth_header, BEARER_PREFIX_LEN + 1, Len(auth_header)))
    ELSE None

\* The bearer value on_request takes from the inbound Authorization header
HeaderBearer(auth_header) ==
    IF auth_header # None /\ StartsWith(auth_header, "Bearer ")
    THEN Strip(SubSeq(auth_header, BEARER_PREFIX_LEN + 1, Len(auth_header)))
    ELSE None

\* Mutant: the JWT is stored under the public key only
ShareJwt_PublicOnly(jwt_token, r) ==
    [ctx |-> IF Truthy(jwt_token)
             THEN [_openbridge_jwt |-> None, jwt_token |-> jwt_token]
             ELSE ctx,
     cache |-> r.cache, reqs |-> r.reqs, res |-> Return(jwt_token)]

\* Share the JWT with downstream tooling if available
ShareJwt(jwt_token, r) ==
    [ctx |-> IF Truthy(jwt_token)
             THEN [_openbridge_jwt |-> jwt_token, jwt_token |-> jwt_token]
             ELSE ctx,
     cache |-> r.cache, reqs |-> r.reqs, res |-> Return(jwt_token)]

\* Priority 2: self._auth.get_jwt(), every exception swallowed
ServerFallback(r) ==
    ShareJwt(IF r.res.kind = "return" THEN r.res.token ELSE None, r)

\* on_request up to its call of call_next; without a FastMCP context nothing
\* is resolved
OnRequest(o) ==
    IF ~req.fastmcp_context
    THEN [ctx |-> ctx, cache |-> cache, reqs |-> <<>>, res |-> Return(None)]
    ELSE IF Truthy(HeaderBearer(req.header))
    THEN ShareJwt(HeaderBearer(req.header), [cache |-> cache, reqs |-> <<>>])
    ELSE ServerFallback(GetJwt(o))

\* return await call_next(context): the next handler runs on the context as r
\* left it and on_request returns or raises what the handler does, h
ThenCallNext(r, h) ==
    [ctx |-> r.ctx, cache |-> r.cache, reqs |-> r.reqs, res |-> r.res,
     handed |-> <<[state |-> r.ctx, result |-> h]>>, out |-> h]

---------------------------------------------------------------------------
(* src/auth/token_verifier.py *)

\* ":" in token and len(token.split(":", maxsplit=1)) == 2
IsRefreshToken(token) == Contains(token, ":")

\* verify_token once jwt_token is known: jwt.decode, then the AccessToken with
\* int(expires_at) for an exp claim that is an int or a float; x is what
\* produced jwt_token
AccessTokenOf(x, payload) ==
    IF ~payload.ok
    THEN [res |-> Return(None), cache |-> x.cache, reqs |-> x.reqs]
    ELSE IF DictGet(payload.v, "exp").t = "inf"
    THEN [res |-> Raise("OverflowError", "cannot convert float infinity to integer"),
          cache |-> x.cache, reqs |-> x.reqs]
    ELSE x

\* The first try block: every exception of the exchange gives None
ExchangedOrNone(x) ==
    IF x.res.kind = "raise"
    THEN [res |-> Return(None), cache |-> x.cache, reqs |-> x.reqs]
    ELSE AccessTokenOf(x, JwtDecode(JStr(x.res.token)))

\* OpenbridgeTokenProvider.verify_token: the token of the AccessToken it
\* returns, None, or what it raises
VerifyToken(token, o) ==
    ExchangedOrNone(IF IsRefreshToken(token) THEN GetJwtAsync(token, o)
                    ELSE [res |-> Return(token), cache |-> cache, reqs |-> <<>>])

---------------------------------------------------------------------------
(* The state machine *)

ConfiguredCredentials == {None, "", "abc:def"}
Overrides == {None, "", "usr:key"}
ClockSteps == {100}
\* Bearer values presented to the token verifier: a refresh token, JWTs and
\* values that are neither
PresentedTokens == {"usr:key", "jwt9.c.client", "jwt9.g.client", "not.a.jwt", ""}
AuthorizationHeaders ==
    {None, "", "Bearer client-token", "Bearer  client-token ", "Bearer  ",
     "bearer client-token", "InvalidFormat token123"}

\* The token field of a response, None when the response carries none
TokenOf(o, field) ==
    IF o.net = "ok" /\ o.json /\ field.ok /\ field.v.t = "str" THEN field.v.s ELSE None

ResponseToken(o) == TokenOf(o, TokenField(o.payload))

KindOf(o, field) ==
    IF o.net = "raise" THEN "transport"
    ELSE IF o.status >= 400 THEN "http_error"
    ELSE IF ~o.json THEN "not_json"
    ELSE IF ~field.ok THEN (IF field.exc = "KeyError" THEN "no_token" ELSE "partial")
    ELSE IF ~JwtDecode(field.v).ok THEN "undecodable"
    ELSE "token"

\* What the auth endpoint answered, as seen on the wire
ResponseKind(o) == KindOf(o, TokenField(o.payload))

\* What the next handler of the middleware chain returns or raises
HandlerResults ==
    {[kind |-> "return", value |-> "response"], [kind |-> "raise", value |-> "ToolError"]}

NoRequest == [header |-> None, access |-> None, fastmcp_context |-> TRUE]

\* The cache entry as a caller finds it
CacheState ==
    IF ~cache.present THEN "none"
    ELSE IF now < cache.expires - SAFETY_BUFFER THEN "valid"
    ELSE IF now = cache.expires - SAFETY_BUFFER THEN "boundary"
    ELSE "stale"

CallRecord(op, ov, r, o) ==
    [op |-> op, ov |-> ov, kind |-> r.res.kind, token |-> r.res.token,
     headers |-> r.res.headers, exc |-> r.res.exc, msg |-> r.res.msg,
     reqs |-> r.reqs, entry |-> CacheState,
     status |-> IF r.reqs = <<>> THEN 0 ELSE o.status,
     answer |-> IF r.reqs = <<>> THEN "" ELSE ResponseKind(o),
     resp |-> IF r.reqs = <<>> THEN None ELSE ResponseToken(o),
     handed |-> IF op = "on_request" THEN r.handed ELSE <<>>,
     out |-> IF op = "on_request" THEN r.out ELSE [kind |-> "none", value |-> None]]

NoCall ==
    [op |-> "none", ov |-> None, kind |-> "return", token |-> None,
     headers |-> NoHeaders, exc |-> "", msg |-> "", reqs |-> <<>>, entry |-> "none",
     status |-> 0, answer |-> "", resp |-> None, handed |-> <<>>,
     out |-> [kind |-> "none", value |-> None]]

\* The entry points by name
Call(op, ov, o) ==
    CASE op = "get_jwt" -> GetJwt(o)
      [] op = "verify_token" -> VerifyToken(ov, o)
      [] op = "get_jwt_async" -> GetJwtAsync(ov, o)
      [] op = "on_request" -> OnRequest(o)
      [] OTHER -> GetAuthHeaders(o)

\* The runs of a call: one per way its exchange can end, a single one when the
\* call makes no exchange
Runs(op, ov) ==
    LET r0 == Call(op, ov, TransportFailure) IN
    IF r0.reqs = <<>>
    THEN {<<r0, TransportFailure>>}
    ELSE {<<Call(op, ov, o), o>> : o \in Outcomes(posts + 1, ActiveCredential(ov))}

\* Concurrent callers of get_jwt_async, each a coroutine of the event loop
Callers == 1..MaxCallers

\* A coroutine that has not called yet
IdleTask ==
    [pc |-> "idle", ov |-> None, rt |-> None, n |-> 0, entry |-> "none", exchange |-> "none",
     kind |-> "", token |-> None, exc |-> "", answer |-> "", resp |-> None]

\* No request was built yet, none was sent yet
NoOutbound == [built |-> FALSE, url |-> "", headers |-> <<>>, auth_injected |-> FALSE]
NoWire == [sent |-> FALSE, url |-> "", headers |-> <<>>, resolved |-> None]

\* The provider holds no token
NoToken == [present |-> FALSE, access_token |-> "", expires_at |-> 0, fetched_at |-> 0]

\* No call of list_identities ended yet
NoListing == [kind |-> "none", key |-> 0, before |-> <<>>, evictions |-> 0]

\* No tool is paginating
IdlePage ==
    [tool |-> None, pc |-> "idle", url |-> None, page |-> 0, items |-> 0, result |-> None,
     requests |-> 0, sentTo |-> None, from |-> None, link |-> None, rejected |-> FALSE]

\* safe_pagination_url was not called yet
NoGuard == [called |-> FALSE, next_url |-> None, base_url |-> "", result |-> None]

\* execute_query was not called yet
NoQuery ==
    [called |-> FALSE, validation |-> "none", decision |-> [allowed |-> FALSE],
     resolved |-> FALSE, posted |-> FALSE, kind |-> "none", error |-> ""]

\* Concurrent callers of OpenBridgeProvider.get_token, and one that has not
\* called yet
Getters == 1..MaxGetters
IdleGetter == [pc |-> "idle", kind |-> "", token |-> None, exc |-> ""]

\* get_healthchecks is not running
NoHealthchecks ==
    [pc |-> "idle", next_page |-> 1, healthchecks |-> <<>>, requests |-> 0, fetched |-> <<>>,
     result |-> <<>>]

Init ==
    /\ refresh_token \in ConfiguredCredentials
    /\ cache = NoCache
    /\ now = 0
    /\ posts = 0
    /\ req = NoRequest
    /\ ctx = NoContextState
    /\ last = NoCall
    /\ tasks = [c \in Callers |-> IdleTask]
    /\ writes = <<>>
    /\ outreq = NoOutbound
    /\ wire = NoWire
    /\ pg = IdlePage
    /\ guard = NoGuard
    /\ _jwt_token = NoToken
    /\ identities_cache = <<>>
    /\ listing = EmptyBag
    /\ listed = NoListing
    /\ svc = NoQuery
    /\ hc = NoHealthchecks
    /\ getters = [g \in Getters |-> IdleGetter]

Tick ==
    /\ \E d \in ClockSteps :
         /\ now + d <= MaxNow
         /\ now' = now + d
    /\ UNCHANGED <<refresh_token, cache, posts, req, ctx, last>>
    /\ UNCHANGED otherVars

GetJwtCall ==
    /\ posts < MaxPosts
    /\ \E run \in Runs("get_jwt", None) :
         /\ cache' = run[1].cache
         /\ posts' = posts + Len(run[1].reqs)
         /\ last' = CallRecord("get_jwt", None, run[1], run[2])
    /\ UNCHANGED <<refresh_token, now, req, ctx>>
    /\ UNCHANGED otherVars

GetJwtAsyncCall ==
    /\ posts < MaxPosts
    /\ \E ov \in Overrides :
         \E run \in Runs("get_jwt_async", ov) :
           /\ cache' = run[1].cache
           /\ posts' = posts + Len(run[1].reqs)
           /\ last' = CallRecord("get_jwt_async", ov, run[1], run[2])
    /\ UNCHANGED <<refresh_token, now, req, ctx>>
    /\ UNCHANGED otherVars

\* A new inbound request: its Authorization header and, when the MCP bearer
\* backend authenticated it, the access token of the auth context
BeginRequest ==
    /\ \E h \in AuthorizationHeaders, fc \in BOOLEAN :
         \E a \in {None, HeaderBearer(h)} :
           req' = [header |-> h, access |-> a, fastmcp_context |-> fc]
    /\ ctx' = NoContextState
    /\ last' = NoCall
    /\ UNCHANGED <<refresh_token, cache, now, posts>>
    /\ UNCHANGED otherVars

OnRequestCall ==
    /\ posts < MaxPosts
    /\ last.op = "none"
    /\ \E run \in Runs("on_request", None), h \in HandlerResults :
         /\ ctx' = run[1].ctx
         /\ cache' = run[1].cache
         /\ posts' = posts + Len(run[1].reqs)
         /\ last' = CallRecord("on_request", None, ThenCallNext(run[1], h), run[2])
    /\ UNCHANGED <<refresh_token, now, req>>
    /\ UNCHANGED otherVars

GetAuthHeadersCall ==
    /\ posts < MaxPosts
    /\ \E run \in Runs("get_auth_headers", None) :
         /\ cache' = run[1].cache
         /\ posts' = posts + Len(run[1].reqs)
         /\ last' = CallRecord("get_auth_headers", None, run[1], run[2])
    /\ UNCHANGED <<refresh_token, now, req, ctx>>
    /\ UNCHANGED otherVars

\* The bearer backend hands the bearer value of a request to the verifier
VerifyTokenCall ==
    /\ posts < MaxPosts
    /\ \E token \in PresentedTokens :
         \E run \in Runs("verify_token", token) :
           /\ cache' = run[1].cache
           /\ posts' = posts + Len(run[1].reqs)
           /\ last' = CallRecord("verify_token", token, run[1], run[2])
    /\ UNCHANGED <<refresh_token, now, req, ctx>>
    /\ UNCHANGED otherVars

\* The credential exchanger called directly
Next ==
    \/ Tick
    \/ GetJwtCall
    \/ GetJwtAsyncCall

Spec == Init /\ [][Next]_vars

\* The token verifier over time
NextVerifier ==
    \/ Tick
    \/ VerifyTokenCall

SpecVerifier == Init /\ [][NextVerifier]_vars

\* Inbound requests through the middleware and the header injector
NextInjector ==
    \/ Tick
    \/ BeginRequest
    \/ OnRequestCall
    \/ GetAuthHeadersCall

SpecInjector == Init /\ [][NextInjector]_vars

---------------------------------------------------------------------------
(* Claims *)

GetTokenOps == {"get_jwt", "get_jwt_async"}

\* The step is a get_token call made without an override credential
PlainCallStep == now' = now /\ last'.op \in GetTokenOps /\ last'.ov = None

\* The step is a get_token call made with an override argument
OverrideCallStep == now' = now /\ last'.op = "get_jwt_async" /\ last'.ov # None

(* C1: after a successful exchange made without override the entry holds the
   issued token, and every get_token call without override made while
   now < expires_at - 300 returns that cached token, sends no exchange
   request and leaves the entry as it is. *)
C1_CachedTokenServed ==
    [][ /\ (PlainCallStep /\ last'.reqs # <<>> /\ last'.kind = "return")
            => (cache'.present /\ cache'.token = last'.token)
        /\ (PlainCallStep /\ cache.present /\ now < cache.expires - SAFETY_BUFFER)
            => /\ last'.kind = "return"
               /\ last'.token = cache.token
               /\ last'.reqs = <<>>
               /\ posts' = posts
               /\ cache' = cache ]_vars

C1_Witness ==
    /\ last.op \in GetTokenOps /\ last.ov = None
    /\ last.entry = "valid" /\ last.kind = "return" /\ last.reqs = <<>>
    /\ last.token = cache.token
    /\ posts >= 1

(* C2: when the entry is no longer valid (now >= expires_at - 300, the
   boundary included) a get_token call without override sends exactly one
   exchange request, whether or not the exchange succeeds; on success it
   returns the token of the response and the entry holds that token. *)
C2_StaleEntryOneExchange ==
    [][ (PlainCallStep /\ cache.present /\ now >= cache.expires - SAFETY_BUFFER)
            => /\ Len(last'.reqs) = 1
               /\ posts' = posts + 1
               /\ last'.kind = "return"
                    => /\ last'.token = last'.resp
                       /\ last'.token # cache.token
                       /\ cache'.present
                       /\ cache'.token = last'.token ]_vars

C2_Witness ==
    /\ last.op \in GetTokenOps /\ last.ov = None
    /\ last.entry = "boundary" /\ last.kind = "return" /\ Len(last.reqs) = 1
    /\ cache.token = last.token

(* C3: a get_token call with an override never reads or writes the shared
   cache: the entry is the same before and after, an exchange is made with
   the override credential even when the entry is valid, and a token
   returned to a caller without override was issued for the configured
   credential, never for an override. *)
C3_OverrideBypassesCache ==
    /\ [][ OverrideCallStep
             => /\ cache' = cache
                /\ Truthy(last'.ov)
                     => /\ Len(last'.reqs) = 1
                        /\ last'.reqs[1].json = BuildPayload(last'.ov) ]_vars
    /\ [](/\ (last.op \in GetTokenOps /\ last.ov = None /\ last.kind = "return")
              => SubjectOf(last.token) = refresh_token
          /\ cache.present => SubjectOf(cache.token) = refresh_token)

C3_Witness ==
    /\ last.op = "get_jwt_async" /\ Truthy(last.ov)
    /\ last.kind = "return" /\ Len(last.reqs) = 1
    /\ last.entry = "valid"
    /\ cache.present /\ cache.token # last.token

\* The bearer credential the caller supplied with the inbound request
CallerCredential ==
    IF Truthy(req.access) THEN req.access ELSE HeaderBearer(req.header)

\* The request context holds a caller-supplied credential: as the access token
\* of the MCP auth context, or as the JWT the middleware took from the header
ContextCarriesCallerCredential ==
    \/ Truthy(req.access)
    \/ Truthy(HeaderBearer(req.header)) /\ ctx.jwt_token = HeaderBearer(req.header)

(* C4: when the inbound request context carries a caller-supplied bearer
   credential, the middleware and get_auth_headers use exactly that
   credential and send no exchange request. *)
C4_Original ==
    /\ (last.op = "on_request" /\ Truthy(HeaderBearer(req.header)))
        => (ctx.jwt_token = HeaderBearer(req.header) /\ last.reqs = <<>>)
    /\ (last.op = "get_auth_headers" /\ ContextCarriesCallerCredential)
        => /\ last.kind = "return"
           /\ last.headers = {<<"Authorization", "Bearer " \o CallerCredential>>}
           /\ last.reqs = <<>>

(* C5: with no caller credential and no configured refresh credential,
   get_auth_headers returns the empty mapping, raises nothing and no exchange
   request is ever sent. *)
C5_NoCredentialEmptyHeaders ==
    (last.op = "get_auth_headers" /\ ~Truthy(CallerCredential) /\ ~Truthy(refresh_token))
        => /\ last.kind = "return"
           /\ last.headers = {}
           /\ last.reqs = <<>>

C5_Witness ==
    /\ last.op = "get_auth_headers"
    /\ ~Truthy(CallerCredential) /\ refresh_token = ""
    /\ last.kind = "return" /\ last.headers = {}

(* C6: with no caller credential, once an exchange was attempted and failed
   (transport error, failing HTTP status, unparseable body, missing token
   field), get_auth_headers raises an AuthenticationError naming
   "Failed to convert" and the auth endpoint URL, whatever the text of the
   underlying failure; it never returns empty headers. *)
C6_Original ==
    (/\ last.op = "get_auth_headers" /\ ~Truthy(req.access)
     /\ last.reqs # <<>>
     /\ last.answer \in {"transport", "http_error", "not_json", "no_token"})
        => /\ last.kind = "raise"
           /\ last.exc = "AuthenticationError"
           /\ Contains(last.msg, "Failed to convert")
           /\ Contains(last.msg, auth_base_url \o "/auth/api/ref")

\* The token decodes and its expiry converts: the exchange can return it
Usable(tok) ==
    LET decoded == JwtDecode(JStr(tok))
    IN  decoded.ok /\ TokenExpiry(decoded.v).ok

(* C7: with no caller credential, a configured refresh credential R and an
   empty or invalid cache, get_auth_headers sends one POST to
   {auth_base_url}/auth/api/ref whose JSON body carries R at
   data.attributes.refresh_token; when the answer is a 200 carrying a usable
   token T at data.attributes.token it returns {"Authorization": "Bearer T"},
   and it returns no other non-empty header set. *)
C7_ExchangeRequestAndHeader ==
    (/\ last.op = "get_auth_headers" /\ ~Truthy(req.access)
     /\ Truthy(refresh_token) /\ last.entry # "valid")
        => /\ Len(last.reqs) = 1
           /\ last.reqs[1].method = "POST"
           /\ last.reqs[1].url = auth_base_url \o "/auth/api/ref"
           /\ last.reqs[1].json.data.attributes.refresh_token = refresh_token
           /\ (last.status = 200 /\ last.answer = "token" /\ Usable(last.resp))
                => /\ last.kind = "return"
                   /\ last.headers = {<<"Authorization", "Bearer " \o last.resp>>}
           /\ (last.kind = "return" /\ last.headers # {})
                => last.headers = {<<"Authorization", "Bearer " \o last.resp>>}

C7_Witness ==
    /\ last.op = "get_auth_headers" /\ ~Truthy(CallerCredential)
    /\ refresh_token = "abc:def" /\ last.entry = "stale"
    /\ Len(last.reqs) = 1
    /\ last.kind = "return"
    /\ last.headers = {<<"Authorization", "Bearer " \o last.resp>>}

\* The latest call was a get_token call for which no credential was resolvable
NoCredentialCall ==
    last.op \in GetTokenOps /\ ~Truthy(last.ov) /\ ~Truthy(refresh_token)

(* C8: when neither an override nor a configured refresh credential is
   present, get_token fails with a ConfigurationError, an error kind distinct
   from AuthenticationError, and sends no exchange request. *)
C8_Original ==
    NoCredentialCall
        => /\ last.kind = "raise"
           /\ last.exc = "ConfigurationError"
           /\ last.reqs = <<>>

(* C8 as amended: when neither an override nor a configured refresh
   credential is present, get_token fails with the AuthenticationError
   "OPENBRIDGE_REFRESH_TOKEN not available for JWT generation", the error type
   failed exchanges use too, and sends no exchange request. *)
C8_NoCredentialAuthenticationError ==
    NoCredentialCall
        => /\ last.kind = "raise"
           /\ last.exc = "AuthenticationError"
           /\ last.msg = "OPENBRIDGE_REFRESH_TOKEN not available for JWT generation"
           /\ last.reqs = <<>>

C8_Witness ==
    /\ NoCredentialCall /\ last.op = "get_jwt_async" /\ last.ov = ""
    /\ refresh_token = "" /\ last.kind = "raise"

(* C9: every exchange attempt that does not yield a usable token fails with
   AuthenticationError (transport failure, failing status, unparseable body,
   absent token field, partial envelope); no other error type escapes
   get_token. *)
C9_Original ==
    (last.op \in GetTokenOps /\ last.reqs # <<>>)
        => /\ last.kind = "raise" => last.exc = "AuthenticationError"
           /\ last.answer \in {"transport", "http_error", "not_json", "no_token", "partial"}
                => last.kind = "raise"

(* C10: the synchronous and the asynchronous get_token agree: in every state
   and for every way the exchange can end, both return the same token or
   fail with the same error type, and both leave the same cache entry. *)
C10_Original ==
    \A o \in Outcomes(posts + 1, ActiveCredential(None)) :
        LET s == GetJwt(o)
            a == GetJwtAsync(None, o)
        IN  /\ s.res.kind = a.res.kind
            /\ s.res.token = a.res.token
            /\ s.res.exc = a.res.exc
            /\ s.cache = a.cache

---------------------------------------------------------------------------
(* src/auth/simple.py: get_jwt_async as coroutines of one event loop.  A
   coroutine runs without interruption up to its await of client.post and,
   when the response arrives, from there to its return. *)

\* The concurrent callers pass no override
ConcurrentOverrides == {None}

\* The ways an exchange of a concurrent caller can end: no response, and a 200
\* carrying a token that expires early (payload "e") or late (payload "a")
ConcurrentOutcomes(n, cred) ==
    {TransportFailure}
    \cup {Resp(200, "OK", TRUE, Envelope(JStr(Jwt(n, k, cred)))) : k \in {"a", "e"}}

\* The coroutine returned or raised before any await
Finished(t, ov, res, entry) ==
    [t EXCEPT !.pc = "done", !.ov = ov, !.entry = entry,
              !.kind = res.kind, !.token = res.token, !.exc = res.exc]

\* The coroutine awaits the response of its exchange request, the n-th sent
Awaiting(t, ov, rt, n, entry) ==
    [t EXCEPT !.pc = "in_flight", !.ov = ov, !.rt = rt, !.n = n, !.entry = entry,
              !.exchange = "in_flight"]

\* get_jwt_async returning whatever entry the cache holds, expired or not
BeginAsync_AnyEntry(c) ==
    /\ tasks[c].pc = "idle"
    /\ \E ov \in ConcurrentOverrides :
         IF ActiveRefreshToken(ov).kind = "raise"
         THEN /\ tasks' = [tasks EXCEPT ![c] = Finished(@, ov, ActiveRefreshToken(ov), CacheState)]
              /\ posts' = posts
         ELSE IF ov = None /\ cache.present
         THEN /\ tasks' = [tasks EXCEPT ![c] = Finished(@, ov, Return(cache.token), CacheState)]
              /\ posts' = posts
         ELSE /\ tasks' = [tasks EXCEPT ![c] =
                             Awaiting(@, ov, ActiveRefreshToken(ov).token, posts + 1, CacheState)]
              /\ posts' = posts + 1
    /\ UNCHANGED <<refresh_token, cache, now, writes>>
    /\ UNCHANGED injectorVars
    /\ UNCHANGED clientVars
    /\ UNCHANGED paginationVars
    /\ UNCHANGED providerVars
    /\ UNCHANGED serviceVars

\* get_jwt_async up to the await in _refresh_async
BeginAsync(c) ==
    /\ tasks[c].pc = "idle"
    /\ \E ov \in ConcurrentOverrides :
         IF ActiveRefreshToken(ov).kind = "raise"
         THEN /\ tasks' = [tasks EXCEPT ![c] = Finished(@, ov, ActiveRefreshToken(ov), CacheState)]
              /\ posts' = posts
         ELSE IF ov = None /\ cache.present /\ IsValid(cache)
         THEN /\ tasks' = [tasks EXCEPT ![c] = Finished(@, ov, Return(cache.token), CacheState)]
              /\ posts' = posts
         ELSE /\ tasks' = [tasks EXCEPT ![c] =
                             Awaiting(@, ov, ActiveRefreshToken(ov).token, posts + 1, CacheState)]
              /\ posts' = posts + 1
    /\ UNCHANGED <<refresh_token, cache, now, writes>>
    /\ UNCHANGED injectorVars
    /\ UNCHANGED clientVars
    /\ UNCHANGED paginationVars
    /\ UNCHANGED providerVars
    /\ UNCHANGED serviceVars

\* The coroutine after its response arrived: r is what _refresh_async makes of it
Resumed(t, r, o) ==
    [t EXCEPT !.pc = "done", !.exchange = "completed",
              !.kind = r.res.kind, !.token = r.res.token, !.exc = r.res.exc,
              !.answer = ResponseKind(o), !.resp = ResponseToken(o)]

\* The callers that wrote the cache, after c's exchange ended as r
WritesAfter(c, r) ==
    IF tasks[c].ov = None /\ r.res.kind = "return" THEN Append(writes, c) ELSE writes

Resume(c, r, o) ==
    /\ tasks' = [tasks EXCEPT ![c] = Resumed(@, r, o)]
    /\ cache' = r.cache
    /\ writes' = WritesAfter(c, r)

\* _refresh_async from the await on: raise_for_status, json, _extract_token
CompleteAsync(c) ==
    /\ tasks[c].pc = "in_flight"
    /\ \E o \in ConcurrentOutcomes(tasks[c].n, tasks[c].rt) :
         Resume(c, RefreshAsync(tasks[c].rt, tasks[c].ov = None, o), o)
    /\ UNCHANGED <<refresh_token, now, posts>>
    /\ UNCHANGED injectorVars
    /\ UNCHANGED clientVars
    /\ UNCHANGED paginationVars
    /\ UNCHANGED providerVars
    /\ UNCHANGED serviceVars

\* The task awaiting client.post is cancelled: CancelledError is thrown into the
\* coroutine at its await, no handler of _refresh_async catches it, and leaving
\* the async with block closes the client together with the request
CancelAsync(c) ==
    /\ tasks[c].pc = "in_flight"
    /\ tasks' = [tasks EXCEPT ![c] =
                   [@ EXCEPT !.pc = "cancelled", !.exchange = "aborted",
                             !.kind = "raise", !.exc = "CancelledError"]]
    /\ UNCHANGED <<refresh_token, cache, now, posts, writes>>
    /\ UNCHANGED injectorVars
    /\ UNCHANGED clientVars
    /\ UNCHANGED paginationVars
    /\ UNCHANGED providerVars
    /\ UNCHANGED serviceVars

\* Concurrent callers of the asynchronous exchanger
NextConcurrent ==
    \/ Tick
    \/ \E c \in Callers : BeginAsync(c)
    \/ \E c \in Callers : CompleteAsync(c)
    \/ \E c \in Callers : CancelAsync(c)

SpecConcurrent == Init /\ [][NextConcurrent]_vars

\* The callers that sent an exchange request
Exchangers == {c \in Callers : tasks[c].n > 0}

\* No coroutine is between its request and its response
Quiescent == \A c \in Callers : tasks[c].pc # "in_flight"

(* C11: concurrent callers without override that find the cache empty or
   invalid each send their own exchange request and none sends more than one;
   a caller whose exchange succeeded receives the token of its own response,
   the one issued for its own request; once no exchange is in flight and some
   caller wrote the cache, the cache holds the token of the caller that wrote
   last. *)
C11_ConcurrentExchanges ==
    /\ posts = Cardinality(Exchangers)
    /\ \A c \in Callers :
         /\ (tasks[c].pc = "in_flight") => (tasks[c].entry # "valid" /\ tasks[c].n > 0)
         /\ (tasks[c].pc = "done" /\ tasks[c].n > 0 /\ tasks[c].kind = "return")
              => /\ tasks[c].token = tasks[c].resp
                 /\ SubSeq(tasks[c].token, 1, 4) = "jwt" \o ToString(tasks[c].n)
    /\ (Quiescent /\ writes # <<>>)
         => /\ cache.present
            /\ cache.token = tasks[writes[Len(writes)]].token

C11_Witness ==
    \E c1, c2 \in Callers :
        /\ c1 # c2
        /\ tasks[c1].pc = "done" /\ tasks[c2].pc = "done"
        /\ tasks[c1].entry = "stale" /\ tasks[c2].entry = "stale"
        /\ tasks[c1].kind = "return" /\ tasks[c2].kind = "return"
        /\ tasks[c1].n > 0 /\ tasks[c2].n > 0
        /\ tasks[c1].token # tasks[c2].token
        /\ Len(writes) = 3
        /\ writes[3] = c2
        /\ cache.token = tasks[c2].token

(* C12: when the request that started an asynchronous exchange is cancelled
   while the exchange is in flight, the exchange is not aborted: it is still
   in flight or has run to completion (and, having succeeded, wrote the
   cache). *)
C12_Original ==
    \A c \in Callers :
        tasks[c].pc = "cancelled"
            => /\ tasks[c].exchange \in {"in_flight", "completed"}
               /\ tasks[c].exchange = "completed" => c \in {writes[i] : i \in DOMAIN writes}

---------------------------------------------------------------------------
(* urllib.parse, for URLs of the shape scheme://netloc/path?query without
   parameters, fragments and "." or ".." segments *)

\* urlparse: the parts of a URL from its scheme, its netloc and what follows
UrlRecord(scheme, netloc, tail) ==
    [scheme |-> scheme,
     netloc |-> netloc,
     hostname |-> Lower(Before(AfterLast(netloc, {"@"}), {":"})),
     path |-> Before(tail, {"?", "#"}),
     query |-> IF Len(Before(tail, {"?", "#"})) < Len(tail)
               THEN SubSeq(tail, Len(Before(tail, {"?", "#"})) + 2, Len(tail))
               ELSE ""]

\* urlparse: a netloc follows "//" and ends before the path
UrlSplit(scheme, rest) ==
    IF StartsWith(rest, "//")
    THEN UrlRecord(scheme, Before(SubSeq(rest, 3, Len(rest)), {"/", "?", "#"}),
                   SubSeq(rest, 3 + Len(Before(SubSeq(rest, 3, Len(rest)), {"/", "?", "#"})),
                          Len(rest)))
    ELSE UrlRecord(scheme, "", rest)

\* urlparse(url): a scheme precedes the first ":" when no character that
\* cannot be part of a scheme comes before it
UrlParse(url) ==
    IF /\ Before(url, {":"}) # ""
       /\ Len(Before(url, {":"})) < Len(url)
       /\ Before(url, {":", "/", "?", "#", "@", ".", " "}) = Before(url, {":"})
    THEN UrlSplit(Lower(Before(url, {":"})), SubSeq(url, Len(Before(url, {":"})) + 2, Len(url)))
    ELSE UrlSplit("", url)

\* urlunparse((scheme, netloc, path, '', query, ''))
UrlUnparse(scheme, netloc, path, query) ==
    (IF scheme # "" THEN scheme \o ":" ELSE "")
        \o (IF netloc # "" \/ ~StartsWith(path, "//")
            THEN "//" \o netloc \o (IF path # "" /\ ~StartsWith(path, "/") THEN "/" \o path ELSE path)
            ELSE path)
        \o (IF query # "" THEN "?" \o query ELSE "")

\* urljoin from the parsed base b and the parsed url u on
JoinParsed(base, url, b, u) ==
    IF u.scheme # "" /\ u.scheme # b.scheme THEN url
    ELSE IF u.netloc # "" THEN UrlUnparse(b.scheme, u.netloc, u.path, u.query)
    ELSE IF u.path = ""
    THEN UrlUnparse(b.scheme, b.netloc, b.path, IF u.query # "" THEN u.query ELSE b.query)
    ELSE UrlUnparse(b.scheme, b.netloc,
                    IF StartsWith(u.path, "/") THEN u.path
                    ELSE IF Len(AfterLast(b.path, {"/"})) = Len(b.path) THEN "/" \o u.path
                    ELSE SubSeq(b.path, 1, Len(b.path) - Len(AfterLast(b.path, {"/"}))) \o u.path,
                    u.query)

\* urljoin(base, url) for a base of the scheme http or https
UrlJoin(base, url) ==
    IF base = "" THEN url
    ELSE IF url = "" THEN base
    ELSE JoinParsed(base, url, UrlParse(base), UrlParse(url))

---------------------------------------------------------------------------
(* src/utils/http_client.py: AuthenticatedClient.  httpx.Headers is a list
   of (name, value) items whose names compare case-insensitively. *)

FORBID_SUBSTRS == {"authorization"}

\* request.headers[key] = value: the items of that name go, the new one is last
SetHeader(h, key, value) ==
    Append(SelectSeq(h, LAMBDA item : Lower(item[1]) # Lower(key)), <<key, value>>)

\* Mutant: only the header named exactly "authorization" counts as polluted
Polluted_ExactName(key) == Lower(key) = "authorization"

\* any(s in key.lower() for s in self._FORBID_SUBSTRS)
Polluted(key) == \E sub \in FORBID_SUBSTRS : Contains(Lower(key), sub)

\* "openbridge.io" in urlparse(url).netloc.lower()
IsOpenbridgeUrl(url) == Contains(Lower(UrlParse(url).netloc), "openbridge.io")

\* _inject_headers with no media registry: the polluted headers are deleted,
\* the Authorization of auth_manager.get_headers(), m, is set for a platform
\* URL (or what get_headers raises leaves), and Accept gets its default
InjectHeaders(rq, m) ==
    LET scrubbed == SelectSeq(rq.headers, LAMBDA item : ~Polluted(item[1]))
        authorization == IF "Authorization" \in DOMAIN m.headers
                         THEN m.headers["Authorization"] ELSE ""
        authed == IF IsOpenbridgeUrl(rq.url)
                  THEN SetHeader(scrubbed, "Authorization", authorization)
                  ELSE scrubbed
    IN  IF IsOpenbridgeUrl(rq.url) /\ ~m.ok
        THEN [ok |-> FALSE, headers |-> scrubbed, resolved |-> None]
        ELSE [ok |-> TRUE,
              headers |-> IF \E i \in DOMAIN authed : Lower(authed[i][1]) = "accept"
                          THEN authed
                          ELSE SetHeader(authed, "Accept", "application/json"),
              resolved |-> IF IsOpenbridgeUrl(rq.url) THEN authorization ELSE None]

\* AuthenticatedClient.send: the request and what leaves the client, x being
\* what _inject_headers does when the request was not injected yet
Send(rq, x) ==
    IF rq.auth_injected
    THEN [req |-> rq,
          wire |-> [sent |-> TRUE, url |-> rq.url, headers |-> rq.headers, resolved |-> wire.resolved]]
    ELSE IF x.ok
    THEN [req |-> [rq EXCEPT !.headers = x.headers, !.auth_injected = TRUE],
          wire |-> [sent |-> TRUE, url |-> rq.url, headers |-> x.headers, resolved |-> x.resolved]]
    ELSE [req |-> [rq EXCEPT !.headers = x.headers], wire |-> NoWire]

\* What auth_manager.get_headers() can do
ManagerResults ==
    { [ok |-> TRUE, headers |-> [Authorization |-> "Bearer platform-jwt"]],
      [ok |-> FALSE, headers |-> [x \in {} |-> ""]] }

\* Targets of outbound requests
OutboundUrls ==
    { "https://subscriptions.api.openbridge.io/sub?page=1",
      "https://OpenBridge.io/x",
      "https://advertising-api.amazon.com/v2/profiles",
      "https://openbridge.io.evil.example/collect",
      "https://evil.example/openbridge.io" }

\* Headers a request carries when it reaches send: from the caller, the client
\* defaults and the RPC framework's plumbing
InboundHeaderSets ==
    { <<>>,
      << <<"User-Agent", "Openbridge-MCP/1.0">> >>,
      << <<"authorization", "Bearer mcp-client">> >>,
      << <<"Authorization", "Bearer mcp-client">>, <<"Accept", "text/plain">> >>,
      << <<"X-Authorization-Token", "framework-secret">> >>,
      << <<"Proxy-Authorization", "Basic abc">>, <<"AUTHORIZATION", "Bearer mcp-client">> >> }

\* A request is built and handed to the client
BuildRequest ==
    /\ \E url \in OutboundUrls, h \in InboundHeaderSets :
         outreq' = [built |-> TRUE, url |-> url, headers |-> h, auth_injected |-> FALSE]
    /\ wire' = NoWire
    /\ UNCHANGED <<serviceVars, exchangerVars, injectorVars, concurrentVars, paginationVars, providerVars>>

\* AuthenticatedClient.send on the request, a first or a repeated time
SendRequest ==
    /\ outreq.built
    /\ \E m \in ManagerResults :
         /\ outreq' = Send(outreq, InjectHeaders(outreq, m)).req
         /\ wire' = Send(outreq, InjectHeaders(outreq, m)).wire
    /\ UNCHANGED <<serviceVars, exchangerVars, injectorVars, concurrentVars, paginationVars, providerVars>>

NextClient ==
    \/ BuildRequest
    \/ SendRequest

SpecClient == Init /\ [][NextClient]_vars

\* The items of headers h whose name matches the authorization pattern
AuthorizationItems(h) == {h[i] : i \in {j \in DOMAIN h : Contains(Lower(h[j][1]), "authorization")}}

(* C13: a request that left the client carries the platform Authorization
   header only when its target host is the platform domain or one of its
   subdomains. *)
C13_Original ==
    (wire.sent /\ AuthorizationItems(wire.headers) # {})
        => LET host == UrlParse(wire.url).hostname
               suffix == ".openbridge.io"
           IN  \/ host = "openbridge.io"
               \/ /\ Len(host) > Len(suffix)
                  /\ SubSeq(host, Len(host) - Len(suffix) + 1, Len(host)) = suffix

(* C14: on a request that left the client no header matching the
   authorization pattern is one that was on the request before injection:
   toward a host the client takes for the platform the only such header is
   Authorization with the value the auth manager resolved, toward any other
   host there is none. *)
C14_PollutedHeadersStripped ==
    wire.sent
        => AuthorizationItems(wire.headers) =
             (IF IsOpenbridgeUrl(wire.url)
              THEN {<<"Authorization", "Bearer platform-jwt">>}
              ELSE {})

C14_Witness ==
    /\ wire.sent
    /\ IsOpenbridgeUrl(wire.url)
    /\ outreq.auth_injected
    /\ wire.headers = << <<"Accept", "text/plain">>, <<"Authorization", "Bearer platform-jwt">> >>

---------------------------------------------------------------------------
(* src/server/tools/base.py: the pagination guard *)

\* src.utils.security.validate_url: accepts a URL whose scheme is allowed
ValidateUrl(url, allowed_schemes) == UrlParse(url).scheme \in allowed_schemes

\* Mutant: the host of the candidate is not compared
CheckedCandidate_AnyHost(candidate, base_url) ==
    IF ~ValidateUrl(candidate, {"https"}) THEN None ELSE candidate

\* safe_pagination_url from the resolved candidate on
CheckedCandidate(candidate, base_url) ==
    IF ~ValidateUrl(candidate, {"https"}) THEN None
    ELSE IF /\ UrlParse(candidate).netloc # ""
            /\ UrlParse(base_url).netloc # ""
            /\ UrlParse(candidate).netloc # UrlParse(base_url).netloc
    THEN None
    ELSE candidate

\* safe_pagination_url(next_url, base_url)
SafePaginationUrl(next_url, base_url) ==
    IF ~Truthy(next_url) THEN None
    ELSE CheckedCandidate(UrlJoin(base_url, next_url), base_url)

---------------------------------------------------------------------------
(* src/server/tools: the pagination loops of remote_identity.py,
   subscriptions.py and products.py *)

REMOTE_IDENTITY_API_BASE_URL == "https://remote-identity.api.openbridge.io"
SUBSCRIPTIONS_API_BASE_URL == "https://subscriptions.api.openbridge.io"
PRODUCT_API_BASE_URL == "https://service.api.openbridge.io/service/products/product"
SUBSCRIPTIONS_PAGE_SIZE == 1000
SUBSCRIPTIONS_MAX_PAGES == 10
MAX_PAGES == 100
HEALTHCHECKS_MAX_PAGES == 10

\* The base URL of the endpoint each paging tool pages through
BaseUrl ==
    [remote_identities |-> REMOTE_IDENTITY_API_BASE_URL,
     subscriptions |-> SUBSCRIPTIONS_API_BASE_URL,
     products |-> PRODUCT_API_BASE_URL]

\* The URL of the first page
FirstUrl ==
    [remote_identities |-> REMOTE_IDENTITY_API_BASE_URL \o "/ri?page=1",
     subscriptions |-> SUBSCRIPTIONS_API_BASE_URL \o "/sub?page=1&page_size="
                           \o ToString(SUBSCRIPTIONS_PAGE_SIZE),
     products |-> PRODUCT_API_BASE_URL \o "?page_size=1000"]

\* links.next of a page: absent, empty, on the endpoint's host in several
\* spellings, or elsewhere
NextLinks(base) ==
    { None, "",
      "https://" \o UrlParse(base).netloc \o "/next?page=2",
      "/next?page=2",
      "?page=2",
      "https://" \o UrlParse(base).netloc \o ":443/next?page=2",
      "http://" \o UrlParse(base).netloc \o "/next?page=2",
      "//evil.example.com/x",
      "https://evil.example.com/page/2",
      "https://" \o UrlParse(base).netloc \o "@evil.example.com/x",
      "javascript:alert(1)" }

\* What requests.get can do for each tool: a page of data items with its next
\* link, an error status, or an exception of the transport
Responses ==
    [tool \in DOMAIN BaseUrl |->
        {[kind |-> "response", status |-> 200, data |-> n, next |-> l] :
            n \in (IF tool = "products" THEN {0, 1} ELSE {1}), l \in NextLinks(BaseUrl[tool])}
        \cup {[kind |-> "response", status |-> 500, data |-> 0, next |-> None],
              [kind |-> "raise", status |-> 0, data |-> 0, next |-> None]}]

\* urlparse(urljoin(base, next)), urlparse(base) and safe_pagination_url(next,
\* base) for every next link of a tool that calls the guard, computed once
Guarded ==
    [tool \in {"remote_identities", "subscriptions"} |->
        [l \in NextLinks(BaseUrl[tool]) |->
            [candidate |-> UrlJoin(BaseUrl[tool], l),
             parsed |-> UrlParse(UrlJoin(BaseUrl[tool], l)),
             base |-> UrlParse(BaseUrl[tool]),
             result |-> SafePaginationUrl(l, BaseUrl[tool])]]]

\* The URLs of the products endpoint requests.get sends a request to: those
\* of the scheme http or https that name a host
SendableUrls ==
    {u \in (NextLinks(PRODUCT_API_BASE_URL) \ {None}) \cup {FirstUrl["products"]} :
        UrlParse(u).scheme \in {"http", "https"} /\ UrlParse(u).netloc # ""}

\* return of the collected items
ReturnItems(st) == [st EXCEPT !.pc = "returned", !.result = st.items]

\* requests.get(url, headers=headers) was sent
Requested(st) == [st EXCEPT !.requests = @ + 1, !.sentTo = st.url, !.from = st.link]

\* get_remote_identities: one turn of the loop on the response r, next being
\* what safe_pagination_url makes of its next link
RemoteIdentitiesPage(st, r, next) ==
    IF r.kind = "raise" THEN [st EXCEPT !.pc = "raised"]
    ELSE IF r.status # 200 THEN ReturnItems(st)
    ELSE IF Truthy(next)
    THEN [st EXCEPT !.items = @ + r.data, !.url = next, !.link = r.next]
    ELSE ReturnItems([st EXCEPT !.items = @ + r.data, !.url = next, !.link = r.next,
                                !.rejected = Truthy(r.next)])

\* Mutant: the items collected so far are dropped when the loop stops early
SubscriptionsPage_Drop(st, r, next) ==
    IF r.kind = "raise" THEN [st EXCEPT !.pc = "raised"]
    ELSE IF r.status = 200 /\ Truthy(next)
    THEN [st EXCEPT !.page = @ + 1, !.items = @ + r.data, !.url = next, !.link = r.next]
    ELSE [st EXCEPT !.page = @ + 1, !.link = r.next, !.pc = "returned", !.result = 0,
                    !.rejected = r.status = 200 /\ Truthy(r.next)]

\* get_subscriptions: one turn of the loop
SubscriptionsPage(st, r, next) ==
    IF r.kind = "raise" THEN [st EXCEPT !.pc = "raised"]
    ELSE IF r.status # 200 THEN [st EXCEPT !.page = @ + 1, !.pc = "returned", !.result = 0]
    ELSE IF Truthy(next) /\ st.page + 1 < SUBSCRIPTIONS_MAX_PAGES
    THEN [st EXCEPT !.page = @ + 1, !.items = @ + r.data, !.url = next, !.link = r.next]
    ELSE ReturnItems([st EXCEPT !.page = @ + 1, !.items = @ + r.data, !.url = next,
                                !.link = r.next, !.rejected = Truthy(r.next) /\ ~Truthy(next)])

\* _fetch_all_products: one turn of the loop; the next link is followed as it is
ProductsPage(st, r) ==
    IF r.kind = "raise" \/ r.status # 200 THEN ReturnItems(st)
    ELSE IF Truthy(r.next) /\ r.data > 0 /\ st.page + 1 <= MAX_PAGES
    THEN [st EXCEPT !.items = @ + r.data, !.url = r.next, !.link = r.next, !.page = @ + 1]
    ELSE IF Truthy(r.next) /\ r.data > 0
    THEN ReturnItems([st EXCEPT !.items = @ + r.data, !.url = r.next, !.link = r.next,
                                !.page = @ + 1])
    ELSE ReturnItems([st EXCEPT !.items = @ + r.data, !.link = r.next])

\* One turn of the loop of the tool
TurnOf(st, r) ==
    CASE st.tool = "remote_identities" ->
            RemoteIdentitiesPage(Requested(st), r, Guarded["remote_identities"][r.next].result)
      [] st.tool = "subscriptions" ->
            SubscriptionsPage(Requested(st), r, Guarded["subscriptions"][r.next].result)
      [] st.tool = "products" ->
            IF st.url \in SendableUrls THEN ProductsPage(Requested(st), r)
            ELSE ReturnItems(st)

\* A tool is called: the state before the first turn of its loop
CallTool ==
    /\ pg.pc # "loop"
    /\ \E tool \in DOMAIN BaseUrl :
         pg' = [IdlePage EXCEPT !.tool = tool, !.pc = "loop", !.url = FirstUrl[tool],
                                !.page = IF tool = "products" THEN 1 ELSE 0]
    /\ guard' = NoGuard
    /\ UNCHANGED <<serviceVars, exchangerVars, injectorVars, concurrentVars, clientVars, providerVars>>

\* One page is requested and handled; guard keeps the call of
\* safe_pagination_url the turn makes
FetchPage ==
    /\ pg.pc = "loop"
    /\ pg.requests < MaxFetches
    /\ \E r \in Responses[pg.tool] :
         /\ pg' = TurnOf(pg, r)
         /\ guard' = IF pg.tool # "products" /\ r.kind = "response" /\ r.status = 200
                     THEN [called |-> TRUE, next_url |-> r.next, base_url |-> BaseUrl[pg.tool],
                           result |-> Guarded[pg.tool][r.next].result]
                     ELSE guard
    /\ UNCHANGED <<serviceVars, exchangerVars, injectorVars, concurrentVars, clientVars, providerVars>>

NextPagination ==
    \/ CallTool
    \/ FetchPage

SpecPagination == Init /\ [][NextPagination]_vars

\* The candidate the latest call of the guard resolved, with its parts
Candidate == Guarded[pg.tool][guard.next_url]

(* C15: safe_pagination_url(candidate, base) returns the candidate resolved
   against base if and only if the candidate is non-empty, the resolved URL's
   scheme is https and the resolved URL's host equals the host of base; in
   every other case it returns none. *)
C15_Original ==
    guard.called
        => guard.result =
             (IF /\ Truthy(guard.next_url)
                 /\ Candidate.parsed.scheme = "https"
                 /\ Candidate.parsed.hostname = Candidate.base.hostname
              THEN Candidate.candidate
              ELSE None)

(* C15 as amended: for a base URL that names a host, safe_pagination_url
   returns the candidate resolved against base if and only if the candidate
   is non-empty, the resolved URL's scheme is https and the resolved URL's
   network location (the host as written, with any user information and
   port) is that of base; in every other case it returns none. *)
C15_GuardContract ==
    guard.called
        => guard.result =
             (IF /\ Truthy(guard.next_url)
                 /\ Candidate.parsed.scheme = "https"
                 /\ Candidate.parsed.netloc = Candidate.base.netloc
              THEN Candidate.candidate
              ELSE None)

C15_Witness ==
    /\ guard.called
    /\ guard.base_url = REMOTE_IDENTITY_API_BASE_URL
    /\ guard.next_url = "/next?page=2"
    /\ guard.result = "https://remote-identity.api.openbridge.io/next?page=2"
    /\ pg.url = guard.result

(* C16: in every pagination loop every request after the first goes to the
   URL the pagination guard returned for the next link of the page before,
   and so to the base host of the endpoint. *)
C16_Original ==
    (pg.requests > 1)
        => /\ pg.sentTo = SafePaginationUrl(pg.from, BaseUrl[pg.tool])
           /\ UrlParse(pg.sentTo).hostname = UrlParse(BaseUrl[pg.tool]).hostname

(* C17: no pagination loop makes more page requests than the largest page
   limit of the tool layer, whatever next links the server returns. *)
C17_Original == pg.requests <= MAX_PAGES

(* C18: when the pagination guard rejected a next link, the loop has stopped
   without raising and the tool has returned all items collected from the
   pages fetched so far. *)
C18_RejectionStopsLoop ==
    pg.rejected
        => /\ pg.pc = "returned"
           /\ pg.result = pg.items
           /\ pg.items = pg.requests

C18_Witness ==
    /\ pg.rejected
    /\ pg.tool = "subscriptions"
    /\ pg.link = "https://evil.example.com/page/2"
    /\ pg.requests = 3
    /\ pg.pc = "returned"
    /\ pg.result = 3

---------------------------------------------------------------------------
(* src/auth/providers/openbridge.py: OpenBridgeProvider *)

IDENTITIES_CACHE_SIZE == 32

\* d.get(key, {}) on the JSON value d
GetOrEmpty(d, key) ==
    IF d.t # "dict" THEN Err("AttributeError")
    ELSE IF key \in DOMAIN d.d THEN Ok(d.d[key])
    ELSE Ok(EmptyDict)

\* datetime.fromtimestamp(payload.get("expires_at", 0), tz=timezone.utc)
ProviderExpiry(claims) ==
    IF "expires_at" \notin DOMAIN claims THEN Ok(0)
    ELSE IF claims["expires_at"].t = "num" THEN Ok(claims["expires_at"].n)
    ELSE Err("TypeError")

\* OpenBridgeProvider._refresh_jwt_token on the outcome o of its request: what
\* it returns or raises and the token the provider holds afterwards
RefreshJwtToken(o) ==
    LET data == GetOrEmpty(o.payload, "data")
        attributes == IF data.ok THEN GetOrEmpty(data.v, "attributes") ELSE data
        token_value == IF ~attributes.ok THEN attributes
                       ELSE IF attributes.v.t # "dict" THEN Err("AttributeError")
                       ELSE Ok(DictGet(attributes.v.d, "token"))
        payload == JwtDecode(token_value.v)
        expires_at == ProviderExpiry(payload.v)
    IN  IF o.net = "raise" THEN [res |-> Raise("HTTPError", "transport"), token |-> _jwt_token]
        ELSE IF o.status \notin {200, 202} /\ HttpxRaisesForStatus(o.status)
        THEN [res |-> Raise("HTTPStatusError", ToString(o.status)), token |-> _jwt_token]
        ELSE IF ~o.json
        THEN [res |-> Raise("JSONDecodeError", "Expecting value"), token |-> _jwt_token]
        ELSE IF ~token_value.ok
        THEN [res |-> Raise(token_value.exc, "object has no attribute 'get'"), token |-> _jwt_token]
        ELSE IF ~TruthyJ(token_value.v)
        THEN [res |-> Raise("ValueError", "No token in OpenBridge response"), token |-> _jwt_token]
        ELSE IF ~payload.ok
        THEN [res |-> Raise(payload.exc, "Invalid token"), token |-> _jwt_token]
        ELSE IF ~expires_at.ok
        THEN [res |-> Raise(expires_at.exc, "an integer is required"), token |-> _jwt_token]
        ELSE [res |-> Return(token_value.v.s),
              token |-> [present |-> TRUE, access_token |-> token_value.v.s,
                         expires_at |-> expires_at.v, fetched_at |-> now]]

\* The provider converts its refresh token to a JWT
ProviderRefresh ==
    /\ \E o \in Outcomes(1, refresh_token) : _jwt_token' = RefreshJwtToken(o).token
    /\ UNCHANGED <<identities_cache, listing, listed, getters>>
    /\ UNCHANGED <<serviceVars, exchangerVars, injectorVars, concurrentVars, clientVars, paginationVars>>

\* The provider's token over time
NextProviderToken ==
    \/ Tick
    \/ ProviderRefresh

SpecProviderToken == Init /\ [][NextProviderToken]_vars

\* validate_token: it awaits nothing, so a caller that awaits it is not suspended
ValidateToken(token) == now < token.expires_at - VALIDATE_BUFFER

\* get_token up to the await of client.post in _refresh_jwt_token: a token
\* that is held and valid is returned at once
BeginGetToken(g) ==
    /\ getters[g].pc = "idle"
    /\ getters' = [getters EXCEPT ![g] =
                     IF _jwt_token.present /\ ValidateToken(_jwt_token)
                     THEN [pc |-> "done", kind |-> "return",
                           token |-> _jwt_token.access_token, exc |-> ""]
                     ELSE [@ EXCEPT !.pc = "in_flight"]]
    /\ UNCHANGED <<_jwt_token, identities_cache, listing, listed>>
    /\ UNCHANGED <<serviceVars, exchangerVars, injectorVars, concurrentVars, clientVars,
                   paginationVars>>

\* _refresh_jwt_token from the response on
CompleteGetToken(g) ==
    /\ getters[g].pc = "in_flight"
    /\ \E o \in ConcurrentOutcomes(g, refresh_token) :
         /\ _jwt_token' = RefreshJwtToken(o).token
         /\ getters' = [getters EXCEPT ![g] =
                          [pc |-> "done", kind |-> RefreshJwtToken(o).res.kind,
                           token |-> RefreshJwtToken(o).res.token,
                           exc |-> RefreshJwtToken(o).res.exc]]
    /\ UNCHANGED <<identities_cache, listing, listed>>
    /\ UNCHANGED <<serviceVars, exchangerVars, injectorVars, concurrentVars, clientVars,
                   paginationVars>>

\* The keys of the dict d, which the model keeps in insertion order
KeysOf(d) == {d[i] : i \in DOMAIN d}

\* The cache keys (identity_type, page_size) a caller asks for, numbered from
\* 1 to MaxKeys: the oldest and the newest cached one and the least key that
\* is not cached
Asked(d) ==
    (IF d = <<>> THEN {} ELSE {d[1], d[Len(d)]})
    \cup {k \in (1..MaxKeys) \ KeysOf(d) : \A j \in (1..MaxKeys) \ KeysOf(d) : k <= j}

\* Mutant: the cache is trimmed only when it holds more than the limit
Stored_Late(d, key) ==
    IF key \in KeysOf(IF Len(d) > IDENTITIES_CACHE_SIZE THEN Tail(d) ELSE d)
    THEN (IF Len(d) > IDENTITIES_CACHE_SIZE THEN Tail(d) ELSE d)
    ELSE Append(IF Len(d) > IDENTITIES_CACHE_SIZE THEN Tail(d) ELSE d, key)

\* Simple cache management, then self._identities_cache[cache_key] = identities:
\* del of the key next(iter(cache)) of a full cache; a new key goes last, a
\* key already there keeps its place
Stored(d, key) ==
    LET trimmed == IF Len(d) >= IDENTITIES_CACHE_SIZE THEN Tail(d) ELSE d
    IN  IF key \in KeysOf(trimmed) THEN trimmed ELSE Append(trimmed, key)

\* The coroutines of bag b after the store of another one: each has seen one
\* more store since it began to await _fetch_identities
Older(b) ==
    [q \in {[key |-> r.key, age |-> r.age + 1] : r \in BagToSet(b)} |->
        b[[key |-> q.key, age |-> q.age - 1]]]

\* list_identities up to its await: a cached key is answered from the cache
BeginListIdentities ==
    /\ \E key \in Asked(identities_cache) :
         IF key \in KeysOf(identities_cache)
         THEN /\ listed' = [kind |-> "hit", key |-> key, before |-> identities_cache,
                             evictions |-> listed.evictions]
              /\ UNCHANGED <<identities_cache, listing>>
         ELSE /\ BagCardinality(listing) < MaxListers
              /\ listing' = listing (+) SetToBag({[key |-> key, age |-> 0]})
              /\ UNCHANGED <<identities_cache, listed>>
    /\ UNCHANGED <<_jwt_token, getters>>
    /\ UNCHANGED <<serviceVars, exchangerVars, injectorVars, concurrentVars, clientVars, paginationVars>>

\* _fetch_identities returned: the list is cached and returned
CompleteListIdentities ==
    /\ \E r \in BagToSet(listing) :
         /\ \A q \in BagToSet(listing (-) SetToBag({r})) : q.age < MaxStale
         /\ listed.evictions < MaxEvictions
         /\ identities_cache' = Stored(identities_cache, r.key)
         /\ listed' = [kind |-> "store", key |-> r.key, before |-> identities_cache,
                        evictions |-> listed.evictions
                            + Cardinality(KeysOf(identities_cache) \ KeysOf(Stored(identities_cache, r.key)))]
         /\ listing' = Older(listing (-) SetToBag({r}))
    /\ UNCHANGED <<_jwt_token, getters>>
    /\ UNCHANGED <<serviceVars, exchangerVars, injectorVars, concurrentVars, clientVars, paginationVars>>

\* _fetch_identities raised: nothing is cached
FailListIdentities ==
    /\ \E r \in BagToSet(listing) :
         /\ listed' = [kind |-> "raise", key |-> r.key, before |-> identities_cache,
                        evictions |-> listed.evictions]
         /\ listing' = listing (-) SetToBag({r})
    /\ UNCHANGED <<_jwt_token, identities_cache, getters>>
    /\ UNCHANGED <<serviceVars, exchangerVars, injectorVars, concurrentVars, clientVars, paginationVars>>

\* The provider's identities cache under concurrent callers
NextProvider ==
    \/ BeginListIdentities
    \/ CompleteListIdentities
    \/ FailListIdentities

SpecProvider == Init /\ [][NextProvider]_vars

\* The keys the latest call removed from the cache
Evicted == KeysOf(listed.before) \ KeysOf(identities_cache)

(* C19: the identities cache never holds more than 32 keys; a call that
   stores a new key into a full cache evicts exactly the key inserted
   earliest, no call evicts any other key or reorders the keys that stay,
   and a cache hit leaves the cache as it was. *)
C19_FifoCache ==
    /\ Len(identities_cache) <= IDENTITIES_CACHE_SIZE
    /\ Cardinality(KeysOf(identities_cache)) = Len(identities_cache)
    /\ listed.kind \in {"hit", "raise"} => identities_cache = listed.before
    /\ listed.kind = "store" =>
         /\ Evicted \subseteq {listed.before[i] : i \in {1} \cap DOMAIN listed.before}
         /\ (Len(listed.before) = IDENTITIES_CACHE_SIZE /\ listed.key \notin KeysOf(listed.before))
               => Evicted = {listed.before[1]}
         /\ Len(listed.before) < IDENTITIES_CACHE_SIZE => Evicted = {}
         /\ identities_cache =
               SelectSeq(listed.before, LAMBDA k : k \notin Evicted \cup {listed.key})
                   \o <<listed.key>>
            \/ /\ listed.key \in KeysOf(listed.before) \ Evicted
               /\ identities_cache = SelectSeq(listed.before, LAMBDA k : k \notin Evicted)

C19_Witness ==
    /\ listed.kind = "store"
    /\ listed.evictions = 3
    /\ Len(listed.before) = IDENTITIES_CACHE_SIZE
    /\ listed.key \notin KeysOf(listed.before)
    /\ Evicted = {listed.before[1]}
    /\ Len(identities_cache) = IDENTITIES_CACHE_SIZE
    /\ identities_cache[1] = listed.before[2]
    /\ identities_cache[IDENTITIES_CACHE_SIZE] = listed.key

(* C20: the expiry stored with the token is the token's expires_at claim when
   present, otherwise its exp claim, otherwise the exchange time plus one
   hour. *)
C20_Original ==
    _jwt_token.present
        => LET held == JwtDecode(JStr(_jwt_token.access_token)).v
           IN  _jwt_token.expires_at =
                 (IF "expires_at" \in DOMAIN held THEN held["expires_at"].n
                  ELSE IF "exp" \in DOMAIN held THEN held["exp"].n
                  ELSE _jwt_token.fetched_at + DEFAULT_LIFETIME)

---------------------------------------------------------------------------
(* Claims on the exchange and on the request middleware *)

(* C21: an exchange succeeds exactly when the response status is 2xx, the
   body parses as JSON and carries a usable token at data.attributes.token; a
   response of any other status is a failure even when its body carries a
   token. *)
C21_Original ==
    (last.op \in GetTokenOps /\ last.reqs # <<>>)
        => (last.kind = "return"
              <=> /\ last.status \in 200..299
                  /\ last.answer = "token"
                  /\ Usable(last.resp))

\* The inbound Authorization header carries the literal prefix "Bearer "
Prefixed == req.header # None /\ Len(req.header) >= 7 /\ SubSeq(req.header, 1, 7) = "Bearer "

(* C22: on a request with a FastMCP context the middleware takes a caller
   credential only from an Authorization header that starts with "Bearer ":
   a token it shares without consulting the exchanger is the rest of that
   header; when the header is absent or lacks the prefix it falls back to the
   exchanger: it shares the cached server token, or sends one exchange request
   with the configured refresh credential and shares the token of the
   response, and whatever it shares was issued for that credential. *)
C22_HeaderOrServerFallback ==
    (last.op = "on_request" /\ req.fastmcp_context)
        => /\ (ctx.jwt_token # None /\ last.reqs = <<>> /\ last.entry # "valid")
                => /\ Prefixed
                   /\ ctx.jwt_token = Strip(SubSeq(req.header, 8, Len(req.header)))
           /\ (Prefixed /\ Strip(SubSeq(req.header, 8, Len(req.header))) # "")
                => /\ ctx.jwt_token = Strip(SubSeq(req.header, 8, Len(req.header)))
                   /\ last.reqs = <<>>
           /\ ~Prefixed
                => /\ ctx.jwt_token # None => SubjectOf(ctx.jwt_token) = refresh_token
                   /\ (Truthy(refresh_token) /\ last.entry = "valid")
                        => (last.reqs = <<>> /\ ctx.jwt_token = cache.token)
                   /\ (Truthy(refresh_token) /\ last.entry # "valid")
                        => /\ Len(last.reqs) = 1
                           /\ last.reqs[1].json = BuildPayload(refresh_token)
                           /\ ctx.jwt_token \in {None, last.resp}
                   /\ ~Truthy(refresh_token) => (last.reqs = <<>> /\ ctx.jwt_token = None)

C22_Witness ==
    /\ last.op = "on_request" /\ req.fastmcp_context
    /\ req.header = "bearer client-token"
    /\ refresh_token = "abc:def"
    /\ Len(last.reqs) = 1
    /\ ctx.jwt_token = last.resp
    /\ ctx.jwt_token # None

(* C23: on_request calls the next handler exactly once and returns or raises
   what that handler did; with neither a caller credential nor a configured
   refresh credential it adds no error of its own, sends no exchange request
   and the handler sees a context without a JWT; when a token was obtained the
   handler sees that token under both context keys. *)
C23_NextHandlerOnce ==
    last.op = "on_request"
        => /\ Len(last.handed) = 1
           /\ last.out = last.handed[1].result
           /\ last.out \in HandlerResults
           /\ last.handed[1].state = ctx
           /\ (~(Prefixed /\ Strip(SubSeq(req.header, 8, Len(req.header))) # "")
               /\ ~Truthy(refresh_token))
                => /\ last.handed[1].state = NoContextState
                   /\ last.reqs = <<>>
           /\ Truthy(last.token)
                => last.handed[1].state =
                     [_openbridge_jwt |-> last.token, jwt_token |-> last.token]

C23_Witness ==
    /\ last.op = "on_request"
    /\ req.header = None /\ refresh_token = "abc:def"
    /\ Len(last.reqs) = 1 /\ Truthy(last.resp)
    /\ last.handed = <<[state |-> [_openbridge_jwt |-> last.resp, jwt_token |-> last.resp],
                         result |-> [kind |-> "return", value |-> "response"]]>>
    /\ last.out = [kind |-> "return", value |-> "response"]

(* C24: when the middleware finds no caller credential, attempts an exchange
   with the configured refresh credential and the exchange fails (transport,
   HTTP status or unparseable body), on_request raises AuthenticationError
   and the next handler is not run. *)
C24_Original ==
    (/\ last.op = "on_request" /\ req.fastmcp_context
     /\ ~(Prefixed /\ Strip(SubSeq(req.header, 8, Len(req.header))) # "")
     /\ last.reqs # <<>>
     /\ last.answer \in {"transport", "http_error", "not_json"})
        => /\ last.out = [kind |-> "raise", value |-> "AuthenticationError"]
           /\ last.handed = <<>>

---------------------------------------------------------------------------
(* src/server/tools/service.py: validate_query and execute_query.  A query
   is what the checks of validate_query make of it: whether a context was
   passed, whether OPENAI_API_KEY is set, whether the text is free of mutating
   keywords, whether it has a LIMIT clause, the allow_unbounded argument and
   what ctx.sample answers. *)

\* What ctx.sample can answer: a JSON object with its allow and read_only
\* members, text that is not JSON, or an exception
Samples ==
    {[kind |-> "json", allow |-> a, read_only |-> r] : a, r \in BOOLEAN}
    \cup {[kind |-> "not_json", allow |-> FALSE, read_only |-> FALSE],
          [kind |-> "raise", allow |-> FALSE, read_only |-> FALSE]}

\* The queries: without a context or without the API key the text and the
\* sampling are never looked at, one query stands for all
Queries ==
    {q \in [ctx : BOOLEAN, api_key : BOOLEAN, read_only : BOOLEAN, has_limit : BOOLEAN,
            allow_unbounded : BOOLEAN, sample : Samples] :
        (q.ctx /\ q.api_key)
        \/ (q.read_only /\ q.has_limit /\ ~q.allow_unbounded /\ q.sample.kind = "raise")}

\* validate_query: ValueError without the API key, else the decision
ValidateQuery(q) ==
    IF ~q.api_key THEN [raised |-> TRUE, decision |-> [allowed |-> FALSE]]
    ELSE [raised |-> FALSE,
          decision |->
            [allowed |-> /\ q.read_only
                         /\ (CASE q.sample.kind = "json" -> q.sample.allow /\ q.sample.read_only
                               [] q.sample.kind = "not_json" -> FALSE
                               [] OTHER -> q.read_only)
                         /\ (q.has_limit \/ q.allow_unbounded)]]

\* execute_query from the call of get_auth_headers on: h is what that call
\* does, resp what requests.post to the query endpoint does
PostQuery(v, h, resp) ==
    IF h.res.kind = "raise"
    THEN [resolved |-> TRUE, posted |-> FALSE, kind |-> "raise", error |-> h.res.exc,
          cache |-> h.cache, reqs |-> h.reqs]
    ELSE IF resp = "raise"
    THEN [resolved |-> TRUE, posted |-> TRUE, kind |-> "raise", error |-> "ConnectionError",
          cache |-> h.cache, reqs |-> h.reqs]
    ELSE IF resp = "200"
    THEN [resolved |-> TRUE, posted |-> TRUE, kind |-> "data", error |-> "",
          cache |-> h.cache, reqs |-> h.reqs]
    ELSE IF v.raised
    THEN [resolved |-> TRUE, posted |-> TRUE, kind |-> "raise", error |-> "UnboundLocalError",
          cache |-> h.cache, reqs |-> h.reqs]
    ELSE [resolved |-> TRUE, posted |-> TRUE, kind |-> "error",
          error |-> "Failed to execute query", cache |-> h.cache, reqs |-> h.reqs]

\* execute_query on the outcome v of validate_query
ExecuteQuery(q, v, h, resp) ==
    IF ~q.ctx
    THEN [resolved |-> FALSE, posted |-> FALSE, kind |-> "raise", error |-> "ValueError",
          cache |-> cache, reqs |-> <<>>]
    ELSE IF ~v.raised /\ ~v.decision.allowed
    THEN [resolved |-> FALSE, posted |-> FALSE, kind |-> "error",
          error |-> "Query validation failed", cache |-> cache, reqs |-> <<>>]
    ELSE PostQuery(v, h, resp)

\* What the call did, as svc keeps it
QueryRecord(q, v, x) ==
    [called |-> TRUE,
     validation |-> IF ~q.ctx THEN "none" ELSE IF v.raised THEN "raised"
                    ELSE IF v.decision.allowed THEN "allowed" ELSE "denied",
     decision |-> v.decision,
     resolved |-> x.resolved, posted |-> x.posted, kind |-> x.kind, error |-> x.error]

ExecuteQueryCall ==
    /\ posts < MaxPosts
    /\ \E q \in Queries, run \in Runs("get_auth_headers", None),
          resp \in {"200", "500", "raise"} :
         /\ svc' = QueryRecord(q, ValidateQuery(q),
                               ExecuteQuery(q, ValidateQuery(q), run[1], resp))
         /\ cache' = ExecuteQuery(q, ValidateQuery(q), run[1], resp).cache
         /\ posts' = posts + Len(ExecuteQuery(q, ValidateQuery(q), run[1], resp).reqs)
    /\ UNCHANGED <<refresh_token, now, hc>>
    /\ UNCHANGED <<injectorVars, concurrentVars, clientVars, paginationVars, providerVars>>

\* The query tool called over time
NextService ==
    \/ Tick
    \/ ExecuteQueryCall

SpecService == Init /\ [][NextService]_vars

(* C25: execute_query posts the query only after validate_query returned a
   decision with allowed = true; when validation denies the query or raises,
   execute_query returns an error result and neither resolves credentials nor
   sends any HTTP request. *)
C25_Original ==
    svc.called
        => /\ svc.posted => svc.validation = "allowed"
           /\ svc.validation \in {"denied", "raised"}
                => /\ svc.kind = "error"
                   /\ ~svc.resolved
                   /\ ~svc.posted

---------------------------------------------------------------------------
(* src/server/tools/healthchecks.py: get_healthchecks.  A result is kept as
   the number of the request that delivered it; fetched are the results of
   all pages received so far, in the order received. *)

\* One turn of the while loop on the response r to the request for next_page
HealthchecksPage(st, r) ==
    IF r.kind = "raise" THEN [st EXCEPT !.pc = "raised", !.requests = @ + 1]
    ELSE IF r.status # 200
    THEN [st EXCEPT !.pc = "returned", !.requests = @ + 1, !.result = st.healthchecks]
    ELSE IF r.next /\ st.next_page + 1 <= HEALTHCHECKS_MAX_PAGES
    THEN [st EXCEPT !.requests = @ + 1, !.next_page = @ + 1,
                    !.healthchecks = [i \in 1..r.results |-> st.requests + 1],
                    !.fetched = @ \o [i \in 1..r.results |-> st.requests + 1]]
    ELSE [st EXCEPT !.pc = "returned", !.requests = @ + 1,
                    !.next_page = IF r.next THEN @ + 1 ELSE @,
                    !.healthchecks = [i \in 1..r.results |-> st.requests + 1],
                    !.fetched = @ \o [i \in 1..r.results |-> st.requests + 1],
                    !.result = [i \in 1..r.results |-> st.requests + 1]]

\* get_healthchecks is called: the state before the first turn
CallHealthchecks ==
    /\ hc.pc # "loop"
    /\ hc' = [NoHealthchecks EXCEPT !.pc = "loop"]
    /\ UNCHANGED svc
    /\ UNCHANGED <<exchangerVars, injectorVars, concurrentVars, clientVars, paginationVars,
                   providerVars>>

\* One page is requested and handled: requests.get answers 200 with its
\* results and with or without a next link, or another status, or raises
FetchHealthchecks ==
    /\ hc.pc = "loop"
    /\ \E r \in {[kind |-> "response", status |-> 200, results |-> n, next |-> l] :
                    n \in {0, 1}, l \in BOOLEAN}
                \cup {[kind |-> "response", status |-> 500, results |-> 0, next |-> FALSE],
                      [kind |-> "raise", status |-> 0, results |-> 0, next |-> FALSE]} :
         hc' = HealthchecksPage(hc, r)
    /\ UNCHANGED svc
    /\ UNCHANGED <<exchangerVars, injectorVars, concurrentVars, clientVars, paginationVars,
                   providerVars>>

NextHealthchecks ==
    \/ CallHealthchecks
    \/ FetchHealthchecks

SpecHealthchecks == Init /\ [][NextHealthchecks]_vars

(* C26: get_healthchecks sends at most HEALTHCHECKS_MAX_PAGES page requests
   and returns the results of all pages it fetched, in page order; when every
   page carries one result and a next link it sends exactly 10 requests and
   returns 10 results. *)
C26_Original ==
    /\ hc.requests <= HEALTHCHECKS_MAX_PAGES
    /\ hc.pc = "returned" => hc.result = hc.fetched
    /\ (hc.pc = "returned" /\ hc.fetched = [i \in 1..HEALTHCHECKS_MAX_PAGES |-> i])
         => (hc.requests = HEALTHCHECKS_MAX_PAGES /\ Len(hc.result) = HEALTHCHECKS_MAX_PAGES)

---------------------------------------------------------------------------
(* Claims on the token verifier *)

(* C27: verify_token never raises; a bearer value of refresh-token shape is
   exchanged with that value as the override credential, any other value is
   used as the JWT itself with no exchange, and when the exchange fails or
   the token does not decode as a JWT the result is None. *)
C27_Original ==
    last.op = "verify_token"
        => /\ last.kind = "return"
           /\ IF Contains(last.ov, ":")
              THEN /\ Len(last.reqs) = 1
                   /\ last.reqs[1].json = BuildPayload(last.ov)
                   /\ last.token \in {None, last.resp}
                   /\ last.answer # "token" => last.token = None
              ELSE /\ last.reqs = <<>>
                   /\ last.token \in {None, last.ov}
                   /\ ~JwtDecode(JStr(last.ov)).ok => last.token = None

---------------------------------------------------------------------------
(* The asynchronous get_token of the exchanger and of the provider under
   concurrent callers.  The two objects share no state but the clock, so a
   behaviour exercises one of them. *)

ExchangerUntouched == cache = NoCache /\ \A c \in Callers : tasks[c].pc = "idle"
ProviderUntouched == _jwt_token = NoToken /\ \A g \in Getters : getters[g].pc = "idle"

NextGetToken ==
    \/ Tick
    \/ ProviderUntouched /\ \E c \in Callers : BeginAsync(c)
    \/ ProviderUntouched /\ \E c \in Callers : CompleteAsync(c)
    \/ ExchangerUntouched /\ \E g \in Getters : BeginGetToken(g)
    \/ ExchangerUntouched /\ \E g \in Getters : CompleteGetToken(g)

SpecGetToken == Init /\ [][NextGetToken]_vars

(* C28: a call of the asynchronous get_token that returns without an exchange
   returns the token of the cache entry as it is at that moment, and that
   entry satisfies now < expires_at - 300 at that moment, whatever other
   callers have done in between; the call leaves the entry as it is. *)
C28_CachedTokenValidAtReturn ==
    [][ /\ \A c \in Callers :
             (tasks[c].pc = "idle" /\ tasks'[c].pc = "done" /\ tasks'[c].kind = "return")
                 => /\ cache.present
                    /\ now < cache.expires - 300
                    /\ tasks'[c].token = cache.token
                    /\ cache' = cache
        /\ \A g \in Getters :
             (getters[g].pc = "idle" /\ getters'[g].pc = "done")
                 => /\ getters'[g].kind = "return"
                    /\ _jwt_token.present
                    /\ now < _jwt_token.expires_at - 300
                    /\ getters'[g].token = _jwt_token.access_token
                    /\ _jwt_token' = _jwt_token ]_vars

C28_Witness ==
    \E c1, c2, c3 \in Callers :
        /\ tasks[c1].pc = "done" /\ tasks[c1].n = 0 /\ tasks[c1].kind = "return"
        /\ tasks[c1].token = cache.token
        /\ tasks[c2].pc = "in_flight"
        /\ tasks[c3].pc = "done" /\ tasks[c3].n > 0 /\ tasks[c3].token = cache.token
        /\ now > 0

---------------------------------------------------------------------------
(* Claims on the shared cache entry *)

\* The expiry _extract_token computes for the token tok at time t
ExpiryDecodedAt(tok, t) ==
    PyFloat(PyOr(PyOr(DictGet(JwtDecode(JStr(tok)).v, "expires_at"),
                      DictGet(JwtDecode(JStr(tok)).v, "exp")),
                 JNum(t + 3600)))

IsEntryOf(c, t) ==
    /\ c.present
    /\ JwtDecode(JStr(c.token)).ok
    /\ ExpiryDecodedAt(c.token, t).ok
    /\ c.expires = ExpiryDecodedAt(c.token, t).v

(* C29: in every state, between the steps of interleaved callers too, the
   shared cache is empty or holds a token with the expiry that _extract_token
   computes from that same token (its expires_at claim, else its exp claim,
   else the time of its exchange plus 3600); and every step that changes the
   cache puts such a pair in it whole. *)
C29_EntryIsOneTokenAndItsExpiry ==
    /\ [](cache = NoCache \/ \E t \in 0..now : IsEntryOf(cache, t))
    /\ [][cache' # cache => IsEntryOf(cache', now)]_vars

C29_Witness ==
    /\ Len(writes) >= 2
    /\ tasks[writes[1]].token # tasks[writes[Len(writes)]].token
    /\ cache.token = tasks[writes[Len(writes)]].token
    /\ cache.expires # ExpiryDecodedAt(tasks[writes[1]].token, now).v
    /\ \E c \in Callers : tasks[c].pc = "in_flight"

(* C30: a call whose exchange fails (no response, a failing status, a body
   that is not JSON, a body without the token field, a token that cannot be
   decoded) leaves the shared cache as it was before the call, whether it held
   a valid entry, an expired one or none. *)
C30_FailedExchangeKeepsCache ==
    [][ /\ (posts' = posts + 1 /\ last' # last /\ last'.kind = "raise") => cache' = cache
        /\ \A c \in Callers :
             (tasks[c].pc = "in_flight" /\ tasks'[c].pc = "done" /\ tasks'[c].kind = "raise")
                 => cache' = cache ]_vars

C30_Witness ==
    /\ last.op \in {"get_jwt", "get_jwt_async"}
    /\ last.kind = "raise"
    /\ last.reqs # <<>>
    /\ last.entry = "stale"
    /\ last.answer # ""
    /\ cache.present

====
